---- MODULE Spec2Model ----
(***************************************************************************)
(* Model of the UCCA graph store (core.py: Passage / Layer / Node / Edge / *)
(* _AttributeDict / ModifyPassage) and of the transition parser's          *)
(* Configuration (parser/config.py).                                       *)
(*                                                                         *)
(* Node and Edge objects are modelled by handles (their index in objs /    *)
(* edges): core.py defines no __eq__ on them, so list membership and       *)
(* list.remove work by object identity.  A node ID "layer.unique" is the   *)
(* pair <<layer, unique>>; splitting at ID_SEPARATOR is taking a component.*)
(***************************************************************************)
EXTENDS Integers, Sequences, FiniteSets, TLC

VARIABLES
    frozen,     \* Passage.frozen
    pattrib,    \* Passage._attrib._dict
    layers,     \* Passage._layers : layer ID -> Layer record
    nodes,      \* Passage._nodes  : node ID  -> Node handle
    objs,       \* every core.Node object ever allocated (handle = index)
    edges,      \* the core.Edge objects in use (handle = index; a slot is free
                \* again once its Edge is unlinked and dropped by the caller)
    result,     \* the last call: operation, arguments, exception, return value
    cfg,        \* parser Configuration: nodes, edges, stack, buffer, root
    cresult,    \* the last Configuration call
    tok         \* fix_tokenization: a call of expand_to_neighboring_punct

storeVars == <<frozen, pattrib, layers, nodes, objs, edges, result>>
cfgVars == <<cfg, cresult>>
vars == <<frozen, pattrib, layers, nodes, objs, edges, result, cfg, cresult, tok>>

-----------------------------------------------------------------------------
(* Bounds *)
MaxNodes == 3       \* core.Node objects allocated
MaxEdges == 2       \* core.Edge objects in use at once
AttrNodes == 2      \* the same two, where the attribute maps are exercised
AttrEdges == 1
MaxAttrs == 1       \* attribute entries stored over all elements
OrderNodes == 2     \* the same two, where the orderkey setters are exercised
OrderEdges == 2
MaxTokens == 2      \* tokens of the parsed text
MaxCfgNodes == 4    \* transient nodes: terminals, root and NODE's
MaxCfgEdges == 3    \* transient edges
MaxSortSteps == 40  \* iterations of the work-stack loop of topological_sort
MaxPuncts == 4      \* length of the is_puncts list
MaxFinalTokens == 1 \* tokens of a text that is parsed and finalized
MaxFinalNodes == 4  \* transient nodes of a Configuration that is finalized
MaxFinalEdges == 2  \* transient edges of a Configuration that is finalized

(* Program constants *)
UNIQUE_ID_MAX_DIGITS == 5

\* Inputs: layer IDs "1" and "2"; node IDs "1.1", "1.2" and "2.1"; one tag.
LayerIds == {1, 2}
NodeIds == {<<1, 1>>, <<1, 2>>, <<2, 1>>}
Tags == {"A"}
Keys == {"k"}
Vals == {1, 2}
None == "None"
EmptyMap == [x \in {} |-> 0]

-----------------------------------------------------------------------------
(* Sequence helpers: list.remove, `in`, and the stable list.sort(key=...) *)

InSeq(x, s) == \E i \in 1..Len(s) : s[i] = x

SeqSet(s) == {s[i] : i \in 1..Len(s)}

\* list.remove(x): drops the first occurrence (caller checks membership,
\* the ValueError of an absent element is modelled at the call sites).
ListRemove(s, x) ==
    LET i == CHOOSE i \in 1..Len(s) : s[i] = x /\ \A j \in 1..(i-1) : s[j] # x
    IN SubSeq(s, 1, i-1) \o SubSeq(s, i+1, Len(s))

\* Lexicographic <= on key tuples of equal length (string comparison of the
\* fixed-width id_orderkey / edge_id_orderkey strings).
RECURSIVE KeyLeq(_, _)
KeyLeq(a, b) ==
    IF a = <<>> THEN TRUE
    ELSE IF a[1] < b[1] THEN TRUE
    ELSE IF a[1] > b[1] THEN FALSE
    ELSE KeyLeq(Tail(a), Tail(b))

\* Insert x into the sorted list t after every element whose key is <= x's.
InsertByKey(t, x, kf) ==
    LET n == Cardinality({i \in 1..Len(t) : KeyLeq(kf[t[i]], kf[x])})
    IN SubSeq(t, 1, n) \o <<x>> \o SubSeq(t, n+1, Len(t))

\* list.sort(key=kf): stable.
RECURSIVE SortByKey(_, _)
SortByKey(s, kf) ==
    IF s = <<>> THEN <<>>
    ELSE InsertByKey(SortByKey(SubSeq(s, 1, Len(s)-1), kf), s[Len(s)], kf)

IsSortedBy(s, kf) ==
    \A i \in 1..Len(s) : \A j \in i..Len(s) : KeyLeq(kf[s[i]], kf[s[j]])

-----------------------------------------------------------------------------
(* Ordering keys *)

Pow10(n) == IF n = 5 THEN 100000 ELSE 10

\* id_orderkey: "{layer} {unique:>5}", compared as a string; with layer IDs
\* of one character this orders by layer first, then numerically by unique.
id_orderkey(ID) == <<ID[1] * Pow10(UNIQUE_ID_MAX_DIGITS) + ID[2]>>

\* edge_id_orderkey: "{id_orderkey(parent)}->{id_orderkey(child)}"
edge_id_orderkey(O, E, e) ==
    IF E[e].parent = 0 THEN <<0, 0>>
    ELSE id_orderkey(O[E[e].parent].ID) \o id_orderkey(O[E[e].child].ID)

\* Key functions a caller may assign: the default one and a reversing one.
LayerKeyNames == {"id_orderkey", "rev_orderkey"}
NodeKeyNames == {"edge_id_orderkey", "rev_orderkey"}

NegKey(k) == [i \in 1..Len(k) |-> 0 - k[i]]

LayerKeyFn(name, O) ==
    [o \in 1..Len(O) |->
        IF name = "id_orderkey" THEN id_orderkey(O[o].ID)
        ELSE NegKey(id_orderkey(O[o].ID))]

NodeKeyFn(name, O, E) ==
    [e \in 1..Len(E) |->
        IF name = "edge_id_orderkey" THEN edge_id_orderkey(O, E, e)
        ELSE NegKey(edge_id_orderkey(O, E, e))]

-----------------------------------------------------------------------------
(* Derived properties of core.Node *)

\* Node.parents / Node.children
parents(O, E, o) == [i \in 1..Len(O[o].incoming) |-> E[O[o].incoming[i]].parent]
children(O, E, o) == [i \in 1..Len(O[o].outgoing) |-> E[O[o].outgoing[i]].child]

\* Node.layer: the layer ID before ID_SEPARATOR, looked up in Passage._layers
\* (KeyError when absent; HasLayer is that test).
LayerIdOf(O, o) == O[o].ID[1]
HasLayer(L, O, o) == LayerIdOf(O, o) \in DOMAIN L

\* Handles a caller can hold and use: nodes whose constructor returned and
\* which are still registered in the Passage.
Handles == {o \in 1..Len(objs) :
              objs[o].built /\ objs[o].ID \in DOMAIN nodes /\ nodes[objs[o].ID] = o}

-----------------------------------------------------------------------------
(* ModifyPassage *)

\* decorated(): `if args[0].root.frozen: raise FrozenPassageError()`
ModifyPassageRaisesOff(fz) == FALSE
ModifyPassageRaises(fz) == fz

\* decorated() calls self.fn(*args, **kwargs) and drops its value.
ModifyPassageReturns(r) == <<"None">>

\* Node.add has no return statement.
Node_add_returns(e) == <<"None">>

-----------------------------------------------------------------------------
(* _AttributeDict *)

DictSet(m, k, v) == [x \in (DOMAIN m) \cup {k} |-> IF x = k THEN v ELSE m[x]]
DictDel(m, k) == [x \in (DOMAIN m) \ {k} |-> m[x]]
\* dict.get(key, default=None)
DictGet(m, k) == IF k \in DOMAIN m THEN m[k] ELSE None

-----------------------------------------------------------------------------
(* Layer: the head-tracking callbacks, on one Layer record Lr *)

NewLayer == [all |-> <<>>, heads |-> <<>>, orderkey |-> "id_orderkey",
             attrib |-> EmptyMap]

\* Layer._add_edge
Layer_add_edge(Lr, child, O) ==
    LET kf == LayerKeyFn(Lr.orderkey, O)
        h1 == IF InSeq(child, Lr.heads) THEN ListRemove(Lr.heads, child)
              ELSE Lr.heads
    IN [Lr EXCEPT !.all = SortByKey(Lr.all, kf), !.heads = SortByKey(h1, kf)]

\* Layer._remove_edge (O already has the edge unlinked)
Layer_remove_edge(Lr, child, O, E) ==
    LET kf == LayerKeyFn(Lr.orderkey, O)
        ps == parents(O, E, child)
        noparent == \A i \in 1..Len(ps) : LayerIdOf(O, ps[i]) # LayerIdOf(O, child)
        h1 == IF noparent THEN SortByKey(Append(Lr.heads, child), kf)
              ELSE Lr.heads
    IN [Lr EXCEPT !.all = SortByKey(Lr.all, kf), !.heads = SortByKey(h1, kf)]

\* Layer._add_node
Layer_add_node(Lr, o, O) ==
    LET kf == LayerKeyFn(Lr.orderkey, O)
    IN [Lr EXCEPT !.all = SortByKey(Append(Lr.all, o), kf),
                  !.heads = SortByKey(Append(Lr.heads, o), kf)]

\* Layer._remove_node: two list.remove calls, each raising ValueError when
\* the node is absent (the first one's effect stays when the second raises).
Layer_remove_node(Lr, o) ==
    IF ~InSeq(o, Lr.all) THEN [layer |-> Lr, status |-> "ValueError"]
    ELSE LET L1 == [Lr EXCEPT !.all = ListRemove(Lr.all, o)]
         IN IF ~InSeq(o, L1.heads) THEN [layer |-> L1, status |-> "ValueError"]
            ELSE [layer |-> [L1 EXCEPT !.heads = ListRemove(L1.heads, o)],
                  status |-> "ok"]

-----------------------------------------------------------------------------
(* Node.add / Node.remove / Node.destroy as functions of the store state   *)
(* St = [objs, layers, edges, nodes, status]; a call on a state whose      *)
(* status is not "ok" does nothing (the exception is propagating).         *)

\* Edge(root, tag, parent, child): the new object takes the first free slot.
FreeEdge == [parent |-> 0, child |-> 0, tag |-> "", attrib |-> EmptyMap]
IsFree(E, e) == E[e].parent = 0
FreeSlots(E) == {e \in 1..Len(E) : IsFree(E, e)}
NewEdgeSlot(E) ==
    IF FreeSlots(E) = {} THEN Len(E) + 1
    ELSE CHOOSE e \in FreeSlots(E) : \A f \in FreeSlots(E) : e <= f
EdgesInUse(E) == Len(E) - Cardinality(FreeSlots(E))
PutEdge(E, e, rec) ==
    IF e = Len(E) + 1 THEN Append(E, rec) ELSE [E EXCEPT ![e] = rec]

\* Node.add that forgets the child's incoming list
Node_addNoIncoming(St, self, tag, child) ==
    LET e == NewEdgeSlot(St.edges)
    IN [St EXCEPT !.edges = PutEdge(St.edges, e,
                      [parent |-> self, child |-> child, tag |-> tag,
                       attrib |-> EmptyMap]),
                  !.objs[self].outgoing = Append(St.objs[self].outgoing, e)]

\* Node.add body (lines 348-355)
Node_add(St, self, tag, child) ==
    LET e == NewEdgeSlot(St.edges)
        E2 == PutEdge(St.edges, e, [parent |-> self, child |-> child, tag |-> tag,
                                   attrib |-> EmptyMap])
        O0 == St.objs
        O1 == [O0 EXCEPT ![self].outgoing =
                  SortByKey(Append(O0[self].outgoing, e),
                            NodeKeyFn(O0[self].orderkey, O0, E2))]
        O2 == [O1 EXCEPT ![child].incoming =
                  SortByKey(Append(O1[child].incoming, e),
                            NodeKeyFn(O1[child].orderkey, O1, E2))]
        l == LayerIdOf(O2, self)
    IN IF ~HasLayer(St.layers, O2, self) \/ ~HasLayer(St.layers, O2, child)
       THEN [St EXCEPT !.objs = O2, !.edges = E2, !.status = "KeyError"]
       ELSE IF l = LayerIdOf(O2, child)
       THEN [St EXCEPT !.objs = O2, !.edges = E2,
                       !.layers[l] = Layer_add_edge(St.layers[l], child, O2)]
       ELSE [St EXCEPT !.objs = O2, !.edges = E2]

\* A resolution that falls back on the first outgoing edge
ResolveEdgeAny(St, self, x) ==
    LET out == St.objs[self].outgoing IN
    IF x[1] = "edge" /\ InSeq(x[2], out) THEN x[2]
    ELSE IF out = <<>> THEN 0 ELSE out[1]

\* The edge Node.remove resolves its argument to, or 0 when there is none:
\* x = <<"edge", e>> or <<"node", n>>.
ResolveEdge(St, self, x) ==
    LET out == St.objs[self].outgoing IN
    IF x[1] = "edge" /\ InSeq(x[2], out) THEN x[2]
    ELSE LET cand == {i \in 1..Len(out) :
                        x[1] = "node" /\ St.edges[out[i]].child = x[2]}
         IN IF cand = {} THEN 0
            ELSE out[CHOOSE i \in cand : \A j \in cand : i <= j]

\* Node.remove body (lines 373-388); the unlinked Edge's slot is freed.
Node_remove(St, self, x) ==
    LET e == ResolveEdge(St, self, x) IN
    IF e = 0 THEN [St EXCEPT !.status = "MissingNodeError"]
    ELSE
    LET c == St.edges[e].child
        O0 == St.objs
        O1 == [O0 EXCEPT ![self].outgoing = ListRemove(O0[self].outgoing, e)]
    IN IF ~InSeq(e, O1[c].incoming)
       THEN [St EXCEPT !.objs = O1, !.status = "MissingNodeError"]
       ELSE
       LET O2 == [O1 EXCEPT ![c].incoming = ListRemove(O1[c].incoming, e)]
           E2 == [St.edges EXCEPT ![e] = FreeEdge]
           l == LayerIdOf(O2, self)
       IN IF ~HasLayer(St.layers, O2, self) \/ ~HasLayer(St.layers, O2, c)
          THEN [St EXCEPT !.objs = O2, !.edges = E2, !.status = "KeyError"]
          ELSE IF l = LayerIdOf(O2, c)
          THEN [St EXCEPT !.objs = O2, !.edges = E2,
                  !.layers[l] = Layer_remove_edge(St.layers[l], c, O2, St.edges)]
          ELSE [St EXCEPT !.objs = O2, !.edges = E2]

\* `for edge in self._outgoing: self.remove(edge)`: the list iterator keeps
\* an index into the list that remove() is shrinking.
RECURSIVE DestroyOutgoing(_, _, _)
DestroyOutgoing(St, self, i) ==
    IF St.status # "ok" \/ i > Len(St.objs[self].outgoing) THEN St
    ELSE DestroyOutgoing(
            Node_remove(St, self, <<"edge", St.objs[self].outgoing[i]>>),
            self, i + 1)

\* `for edge in self._incoming: edge.parent.remove(edge)`
RECURSIVE DestroyIncoming(_, _, _)
DestroyIncoming(St, self, i) ==
    IF St.status # "ok" \/ i > Len(St.objs[self].incoming) THEN St
    ELSE LET e == St.objs[self].incoming[i]
         IN DestroyIncoming(Node_remove(St, St.edges[e].parent, <<"edge", e>>),
                            self, i + 1)

\* Node.destroy, after the two loops: `self.layer._remove_node(self)` and
\* `self._root._remove_node(self)` on the state S2 the loops left.
Node_destroy_unregister(S2, self) ==
    LET l == LayerIdOf(S2.objs, self)
    IN IF S2.status # "ok" THEN S2
       ELSE IF l \notin DOMAIN S2.layers THEN [S2 EXCEPT !.status = "KeyError"]
       ELSE
       LET r == Layer_remove_node(S2.layers[l], self)
           S3 == [S2 EXCEPT !.layers[l] = r.layer, !.status = r.status]
           ID == S3.objs[self].ID
       IN IF S3.status # "ok" THEN S3
          ELSE IF ID \notin DOMAIN S3.nodes THEN [S3 EXCEPT !.status = "KeyError"]
          ELSE [S3 EXCEPT !.nodes = [i \in (DOMAIN S3.nodes) \ {ID} |-> S3.nodes[i]]]

\* Node.destroy body (lines 407-412)
Node_destroy(St, self) ==
    Node_destroy_unregister(
        DestroyIncoming(DestroyOutgoing(St, self, 1), self, 1), self)

-----------------------------------------------------------------------------
(* Store operations, one action per public call *)

\* The record of a call: self, the argument (a tagged tuple), the tag given,
\* the Edge the call created or resolved, the exception raised ("ok" when
\* none) and the value returned (a tagged tuple, <<"None">> for None).
Res(op, st, self, arg, tag, edge, ret) ==
    [op |-> op, status |-> st, self |-> self, arg |-> arg, tag |-> tag,
     edge |-> edge, ret |-> ret]

RNone == <<"None">>

Store == [objs |-> objs, layers |-> layers, edges |-> edges, nodes |-> nodes,
          status |-> "ok"]

NewNode(ID) == [ID |-> ID, outgoing |-> <<>>, incoming |-> <<>>,
                orderkey |-> "edge_id_orderkey", attrib |-> EmptyMap,
                built |-> FALSE]

\* Passage._add_layer: the duplicate test
DupLayer(l) == l \in DOMAIN layers

\* Passage._add_node: the duplicate test
DupNodeOff(ID) == FALSE
DupNode(ID) == ID \in DOMAIN nodes

\* Layer(ID, root)
CreateLayer(l) ==
    LET st == IF frozen THEN "FrozenPassageError"
              ELSE IF ModifyPassageRaises(frozen) THEN "FrozenPassageError"
              ELSE IF DupLayer(l) THEN "DuplicateIdError"
              ELSE "ok"
    IN /\ layers' = IF st = "ok" THEN [x \in (DOMAIN layers) \cup {l} |->
                                          IF x = l THEN NewLayer ELSE layers[x]]
                    ELSE layers
       /\ result' = Res("Layer", st, None, <<"layer", l>>, None, 0, RNone)
       /\ UNCHANGED <<frozen, pattrib, nodes, objs, edges>>

\* Node(ID, root, tag): registers with the Passage, then looks its layer up
\* and registers there.
CreateNode(ID, capN) ==
    LET st == IF frozen THEN "FrozenPassageError"
              ELSE IF ModifyPassageRaises(frozen) THEN "FrozenPassageError"
              ELSE IF DupNode(ID) THEN "DuplicateIdError"
              ELSE IF ID[1] \notin DOMAIN layers THEN "KeyError"
              ELSE "ok"
        o == Len(objs) + 1
        O1 == Append(objs, [NewNode(ID) EXCEPT !.built = (st = "ok")])
    IN /\ st \in {"ok", "KeyError"} => Len(objs) < capN
       /\ IF st \in {"ok", "KeyError"}
          THEN /\ objs' = O1
               /\ nodes' = [x \in (DOMAIN nodes) \cup {ID} |->
                               IF x = ID THEN o ELSE nodes[x]]
          ELSE UNCHANGED <<objs, nodes>>
       /\ layers' = IF st = "ok"
                    THEN [layers EXCEPT ![ID[1]] = Layer_add_node(layers[ID[1]], o, O1)]
                    ELSE layers
       /\ result' = Res("Node", st, None, <<"id", ID>>, None, 0,
                        IF st = "ok" THEN <<"Node", o>> ELSE RNone)
       /\ UNCHANGED <<frozen, pattrib, edges>>

\* Edge(root, tag, parent, child) called directly: an unlinked Edge object
CreateEdge(p, tag, c, capE) ==
    LET st == IF frozen THEN "FrozenPassageError" ELSE "ok"
    IN /\ st = "ok" => EdgesInUse(edges) < capE
       /\ edges' = IF st = "ok"
                   THEN PutEdge(edges, NewEdgeSlot(edges),
                                [parent |-> p, child |-> c, tag |-> tag,
                                 attrib |-> EmptyMap])
                   ELSE edges
       /\ result' = Res("Edge", st, p, <<"node", c>>, tag, 0,
                        IF st = "ok" THEN <<"Edge", NewEdgeSlot(edges)>> ELSE RNone)
       /\ UNCHANGED <<frozen, pattrib, layers, nodes, objs>>

Commit(S) ==
    /\ objs' = S.objs
    /\ layers' = S.layers
    /\ edges' = S.edges
    /\ nodes' = S.nodes

\* node.add(edge_tag, child)
Add(self, tag, child, capE) ==
    IF ModifyPassageRaises(frozen)
    THEN /\ result' = Res("add", "FrozenPassageError", self, <<"node", child>>, tag,
                          0, RNone)
         /\ UNCHANGED <<frozen, pattrib, layers, nodes, objs, edges>>
    ELSE LET S == Node_add(Store, self, tag, child)
         IN /\ EdgesInUse(edges) < capE
            /\ Commit(S)
            /\ result' = Res("add", S.status, self, <<"node", child>>, tag,
                             NewEdgeSlot(edges),
                             ModifyPassageReturns(Node_add_returns(NewEdgeSlot(edges))))
            /\ UNCHANGED <<frozen, pattrib>>

\* node.remove(edge_or_node)
Remove(self, x) ==
    IF ModifyPassageRaises(frozen)
    THEN /\ result' = Res("remove", "FrozenPassageError", self, x, None, 0, RNone)
         /\ UNCHANGED <<frozen, pattrib, layers, nodes, objs, edges>>
    ELSE LET S == Node_remove(Store, self, x)
         IN /\ Commit(S)
            /\ result' = Res("remove", S.status, self,
                             IF ResolveEdge(Store, self, x) = 0 THEN x
                             ELSE <<x[1], x[2], edges[ResolveEdge(Store, self, x)].child>>,
                             None, ResolveEdge(Store, self, x),
                             ModifyPassageReturns(RNone))
            /\ UNCHANGED <<frozen, pattrib>>

\* node.destroy()
Destroy(self) ==
    IF ModifyPassageRaises(frozen)
    THEN /\ result' = Res("destroy", "FrozenPassageError", self, RNone, None, 0, RNone)
         /\ UNCHANGED <<frozen, pattrib, layers, nodes, objs, edges>>
    ELSE LET S == Node_destroy(Store, self)
         IN /\ Commit(S)
            /\ result' = Res("destroy", S.status, self, RNone, None, 0,
                             ModifyPassageReturns(RNone))
            /\ UNCHANGED <<frozen, pattrib>>

\* Freezing: the flag every guard reads is the attribute Passage.__init__
\* sets; no method of the store writes it, so freezing is the client's
\* assignment passage.frozen = True.
FreezeValue(fz) == TRUE

Freeze ==
    /\ frozen' = FreezeValue(frozen)
    /\ result' = Res("freeze", "ok", None, <<"was", frozen>>, None, 0, RNone)
    /\ UNCHANGED <<pattrib, layers, nodes, objs, edges>>

\* node.orderkey = value : re-sorts the outgoing list only
SetNodeOrderkey(o, k) ==
    /\ objs' = [objs EXCEPT ![o].orderkey = k,
                            ![o].outgoing = SortByKey(objs[o].outgoing,
                                                      NodeKeyFn(k, objs, edges))]
    /\ result' = Res("node.orderkey", "ok", o, <<"key", k>>, None, 0, RNone)
    /\ UNCHANGED <<frozen, pattrib, layers, nodes, edges>>

\* layer.orderkey = value
SetLayerOrderkey(l, k) ==
    /\ layers' = [layers EXCEPT ![l].orderkey = k,
                    ![l].all = SortByKey(layers[l].all, LayerKeyFn(k, objs)),
                    ![l].heads = SortByKey(layers[l].heads, LayerKeyFn(k, objs))]
    /\ result' = Res("layer.orderkey", "ok", l, <<"key", k>>, None, 0, RNone)
    /\ UNCHANGED <<frozen, pattrib, nodes, objs, edges>>

-----------------------------------------------------------------------------
(* Attribute maps: element.attrib[key] = value, del element.attrib[key],   *)
(* element.attrib[key], element.attrib.get(key)                            *)

Elements ==
    {<<"passage", 0>>}
    \cup {<<"layer", l>> : l \in DOMAIN layers}
    \cup {<<"node", o>> : o \in Handles}
    \cup {<<"edge", e>> : e \in (1..Len(edges)) \ FreeSlots(edges)}

AttrOf(el) ==
    CASE el[1] = "passage" -> pattrib
      [] el[1] = "layer" -> layers[el[2]].attrib
      [] el[1] = "node" -> objs[el[2]].attrib
      [] el[1] = "edge" -> edges[el[2]].attrib

AttrCount == Cardinality({p \in Elements \X Keys : p[2] \in DOMAIN AttrOf(p[1])})

PutAttr(el, m) ==
    /\ pattrib' = IF el[1] = "passage" THEN m ELSE pattrib
    /\ layers' = IF el[1] = "layer" THEN [layers EXCEPT ![el[2]].attrib = m]
                 ELSE layers
    /\ objs' = IF el[1] = "node" THEN [objs EXCEPT ![el[2]].attrib = m] ELSE objs
    /\ edges' = IF el[1] = "edge" THEN [edges EXCEPT ![el[2]].attrib = m] ELSE edges

\* _AttributeDict.__setitem__
AttrSet(el, k, v, capA) ==
    IF ModifyPassageRaises(frozen)
    THEN /\ result' = Res("attrib.set", "FrozenPassageError", el, <<"kv", k, v>>,
                          None, 0, RNone)
         /\ UNCHANGED <<frozen, pattrib, layers, nodes, objs, edges>>
    ELSE /\ k \in DOMAIN AttrOf(el) \/ AttrCount < capA
         /\ PutAttr(el, DictSet(AttrOf(el), k, v))
         /\ result' = Res("attrib.set", "ok", el, <<"kv", k, v>>, None, 0,
                          ModifyPassageReturns(RNone))
         /\ UNCHANGED <<frozen, nodes>>

\* _AttributeDict.__delitem__
AttrDel(el, k) ==
    IF ModifyPassageRaises(frozen)
    THEN /\ result' = Res("attrib.del", "FrozenPassageError", el, <<"k", k>>,
                          None, 0, RNone)
         /\ UNCHANGED <<frozen, pattrib, layers, nodes, objs, edges>>
    ELSE IF k \notin DOMAIN AttrOf(el)
    THEN /\ result' = Res("attrib.del", "KeyError", el, <<"k", k>>, None, 0, RNone)
         /\ UNCHANGED <<frozen, pattrib, layers, nodes, objs, edges>>
    ELSE /\ PutAttr(el, DictDel(AttrOf(el), k))
         /\ result' = Res("attrib.del", "ok", el, <<"k", k>>, None, 0,
                          ModifyPassageReturns(RNone))
         /\ UNCHANGED <<frozen, nodes>>

\* _AttributeDict.__getitem__ : no guard, KeyError for an absent key
AttrGetItem(el, k) ==
    /\ result' = IF k \in DOMAIN AttrOf(el)
                 THEN Res("attrib.getitem", "ok", el, <<"k", k>>, None, 0,
                          <<"val", AttrOf(el)[k]>>)
                 ELSE Res("attrib.getitem", "KeyError", el, <<"k", k>>, None, 0,
                          RNone)
    /\ UNCHANGED <<frozen, pattrib, layers, nodes, objs, edges>>

\* _AttributeDict.get : no guard, None for an absent key
AttrGet(el, k) ==
    /\ result' = Res("attrib.get", "ok", el, <<"k", k>>, None, 0,
                     IF k \in DOMAIN AttrOf(el) THEN <<"val", AttrOf(el)[k]>>
                     ELSE RNone)
    /\ UNCHANGED <<frozen, pattrib, layers, nodes, objs, edges>>

-----------------------------------------------------------------------------
(* The graph store's specification *)

\* Passage(ID): mutable, no layers, no nodes
\* Passage.__init__: self.frozen = False
InitialFrozenOn == TRUE
InitialFrozen == FALSE

StoreInit ==
    /\ frozen = InitialFrozen
    /\ pattrib = EmptyMap
    /\ layers = [x \in {} |-> NewLayer]
    /\ nodes = [x \in {} |-> 0]
    /\ objs = <<>>
    /\ edges = <<>>
    /\ result = Res("Passage", "ok", None, RNone, None, 0, RNone)

EdgeArgs == {<<"edge", e>> : e \in (1..Len(edges)) \ FreeSlots(edges)} \cup {<<"node", n>> : n \in Handles}

\* Layer, Node, node.add, node.remove, node.destroy, freezing
GraphNext(capN, capE) ==
    \/ \E l \in LayerIds : CreateLayer(l)
    \/ \E ID \in NodeIds : CreateNode(ID, capN)
    \/ \E self \in Handles, c \in Handles, t \in Tags : Add(self, t, c, capE)
    \/ \E self \in Handles, x \in EdgeArgs : Remove(self, x)
    \/ \E self \in Handles : Destroy(self)
    \/ Freeze

\* Edge(...) called directly and the attribute maps
AttrNext(capE, capA) ==
    \/ \E p \in Handles, c \in Handles, t \in Tags : CreateEdge(p, t, c, capE)
    \/ \E el \in Elements, k \in Keys, v \in Vals : AttrSet(el, k, v, capA)
    \/ \E el \in Elements, k \in Keys : AttrDel(el, k)
    \/ \E el \in Elements, k \in Keys : AttrGetItem(el, k)
    \/ \E el \in Elements, k \in Keys : AttrGet(el, k)

\* The orderkey setters
OrderNext ==
    \/ \E o \in Handles, k \in NodeKeyNames : SetNodeOrderkey(o, k)
    \/ \E l \in DOMAIN layers, k \in LayerKeyNames : SetLayerOrderkey(l, k)

-----------------------------------------------------------------------------
(* parser/config.py: the transient Node and Edge, and Configuration.
   cfg.nodes holds the transient Node objects in the order of their
   creation and cfg.order is the list self.nodes, as positions in
   cfg.nodes; cfg.tedges holds the transient Edge objects that were
   appended to some list; stack, buffer and root hold positions in
   cfg.nodes. *)

\* Node.__init__ in parsing mode (text for terminals, None otherwise);
\* node is the associated core.Node, 0 until the final passage is created
TNode(index, text) ==
    [index |-> index, text |-> text, outgoing |-> <<>>, incoming |-> <<>>,
     node |-> 0]

\* An Edge that drops the remote flag it is given
TEdgeNotRemote(parent, child, tag, remote) ==
    [parent |-> parent, child |-> child, tag |-> tag, remote |-> FALSE]

\* Edge.__init__
TEdge(parent, child, tag, remote) ==
    [parent |-> parent, child |-> child, tag |-> tag, remote |-> remote]

\* Node.__eq__, Edge.__eq__ and the list comparison between them.  The
\* three call one another; the result is "T", "F" or "Rec" (the recursion
\* never ends: RecursionError).  A list compares its items by identity
\* first; `==` on two nodes always calls Node.__eq__.
RECURSIVE TNode_eq(_, _, _, _)
RECURSIVE TEdge_eq(_, _, _, _)
RECURSIVE TList_eq(_, _, _, _, _)
TNode_eq(C, a, b, fuel) ==
    IF fuel = 0 THEN "Rec"
    ELSE IF C.nodes[a].text # C.nodes[b].text THEN "F"
    ELSE IF Len(C.nodes[a].outgoing) # Len(C.nodes[b].outgoing) THEN "F"
    ELSE TList_eq(C, C.nodes[a].outgoing, C.nodes[b].outgoing, 1, fuel)

TEdge_eq(C, e, f, fuel) ==
    LET r == TNode_eq(C, e.child, f.child, fuel - 1)
    IN IF r # "T" THEN r
       ELSE IF e.tag = f.tag /\ e.remote = f.remote THEN "T" ELSE "F"

TList_eq(C, s, t, i, fuel) ==
    IF i > Len(s) THEN "T"
    ELSE IF s[i] = t[i] THEN TList_eq(C, s, t, i + 1, fuel)
    ELSE LET r == TEdge_eq(C, C.tedges[s[i]], C.tedges[t[i]], fuel)
         IN IF r = "T" THEN TList_eq(C, s, t, i + 1, fuel) ELSE r

\* `edge in list` for an Edge object that is in no list yet
RECURSIVE TEdge_in(_, _, _, _, _)
TEdge_in(C, e, s, i, fuel) ==
    IF i > Len(s) THEN "F"
    ELSE LET r == TEdge_eq(C, C.tedges[s[i]], e, fuel)
         IN IF r = "F" THEN TEdge_in(C, e, s, i + 1, fuel) ELSE r

\* Edge.add: the four assertions, then the two appends
TEdge_add(C, e, fuel) ==
    LET ne == TNode_eq(C, e.parent, e.child, fuel)
        io == TEdge_in(C, e, C.nodes[e.parent].outgoing, 1, fuel)
        ii == TEdge_in(C, e, C.nodes[e.child].incoming, 1, fuel)
        k == Len(C.tedges) + 1
    IN IF e.tag = None
       THEN [cfg |-> C, status |-> "AssertionError: No tag given for new edge"]
       ELSE IF ne = "Rec" THEN [cfg |-> C, status |-> "RecursionError"]
       ELSE IF ne = "T"
       THEN [cfg |-> C, status |-> "AssertionError: Trying to create self-loop edge"]
       ELSE IF io = "Rec" THEN [cfg |-> C, status |-> "RecursionError"]
       ELSE IF io = "T"
       THEN [cfg |-> C, status |-> "AssertionError: Trying to create edge twice"]
       ELSE IF ii = "Rec" THEN [cfg |-> C, status |-> "RecursionError"]
       ELSE IF ii = "T"
       THEN [cfg |-> C, status |-> "AssertionError: Trying to create edge twice"]
       ELSE LET n1 == [C.nodes EXCEPT ![e.parent].outgoing = Append(@, k)]
                n2 == [n1 EXCEPT ![e.child].incoming = Append(@, k)]
            IN [cfg |-> [C EXCEPT !.nodes = n2, !.tedges = Append(@, e)],
                status |-> "ok"]

\* Configuration.add_node: Node(len(self.nodes)) appended to self.nodes
add_node(C) ==
    [C EXCEPT !.nodes = Append(@, TNode(Len(C.order), None)),
              !.order = Append(@, Len(C.nodes) + 1)]

\* A constructor that fills the buffer after it has added the root
ConfigurationRootFirst(tokens) ==
    LET terms == [i \in 1..Len(tokens) |-> TNode(i - 1, tokens[i])]
        C == [nodes |-> terms, order |-> [i \in 1..Len(tokens) |-> i],
              tedges |-> <<>>,
              buffer |-> [i \in 1..(Len(tokens) + 1) |-> i], stack |-> <<>>,
              root |-> 0]
    IN [add_node(C) EXCEPT !.root = Len(tokens) + 1]

\* Configuration.__init__ from plain text: one terminal per token, all of
\* them in the buffer, an empty stack, and the root added after them.
Configuration(tokens) ==
    LET terms == [i \in 1..Len(tokens) |-> TNode(i - 1, tokens[i])]
        C == [nodes |-> terms, order |-> [i \in 1..Len(tokens) |-> i],
              tedges |-> <<>>,
              buffer |-> [i \in 1..Len(tokens) |-> i], stack |-> <<>>, root |-> 0]
    IN [add_node(C) EXCEPT !.root = Len(tokens) + 1]

\* list.append: the new item is the top of the stack
StackPushFront(s, n) == <<n>> \o s
StackPush(s, n) == Append(s, n)
\* list.pop(), list.pop(-2), deque.popleft()
StackPop(s) == SubSeq(s, 1, Len(s) - 1)
StackPopTop(s) == SubSeq(s, 1, Len(s) - 1)
StackPop2(s) == SubSeq(s, 1, Len(s) - 2) \o <<s[Len(s)]>>
\* list.pop() on an empty list raises IndexError
PopRaisesOff(s) == FALSE
PopRaises(s) == s = <<>>
\* deque(self.stack): the stack's nodes, bottom first
DequeReversed(s) == [i \in 1..Len(s) |-> s[Len(s) + 1 - i]]
DequeWithoutHead(s) == IF s = <<>> THEN s ELSE Tail(s)
Deque(s) == s
BufferKeep(b) == b
BufferPopleft(b) == Tail(b)

\* set(self.stack).intersection(self.buffer): Node.__hash__ is the index
\* and no two nodes share one, so the set holds the nodes by identity.
StackBufferOverlap(C) == SeqSet(C.stack) \cap SeqSet(C.buffer) # {}

\* The branch of apply_action for one action type: the configuration it
\* leaves and "ok" or the exception it raises.
ApplyBranch(C, type, tag, fuel) ==
    CASE type = "NODE" ->
           LET C1 == add_node(C)
               parent == Len(C1.nodes)
           IN IF C1.buffer = <<>> THEN [cfg |-> C1, status |-> "IndexError"]
              ELSE LET r == TEdge_add(C1, TEdge(parent, Head(C1.buffer), tag, FALSE), fuel)
                   IN IF r.status # "ok" THEN r
                      ELSE [cfg |-> [r.cfg EXCEPT !.stack = StackPush(@, parent)],
                            status |-> "ok"]
      [] type \in {"EDGE", "REMOTE"} ->
           IF C.stack = <<>> \/ C.buffer = <<>> THEN [cfg |-> C, status |-> "IndexError"]
           ELSE TEdge_add(C, TEdge(C.stack[Len(C.stack)], Head(C.buffer), tag,
                                   type = "REMOTE"), fuel)
      [] type = "ROOT" ->
           IF C.stack = <<>> THEN [cfg |-> C, status |-> "IndexError"]
           ELSE TEdge_add([C EXCEPT !.stack = StackPop(@)],
                          TEdge(C.root, C.stack[Len(C.stack)], tag, FALSE), fuel)
      [] type = "REDUCE" ->
           IF PopRaises(C.stack) THEN [cfg |-> C, status |-> "IndexError"]
           ELSE [cfg |-> [C EXCEPT !.stack = StackPop(@)], status |-> "ok"]
      [] type = "SHIFT" ->
           IF C.buffer = <<>> THEN [cfg |-> C, status |-> "IndexError"]
           ELSE [cfg |-> [C EXCEPT !.stack = StackPush(@, Head(C.buffer)),
                                   !.buffer = BufferPopleft(@)],
                 status |-> "ok"]
      [] type = "SWAP" ->
           IF Len(C.stack) < 2 THEN [cfg |-> C, status |-> "IndexError"]
           ELSE [cfg |-> [C EXCEPT !.stack = StackPush(StackPop2(@), @[Len(@) - 1])],
                 status |-> "ok"]
      [] type = "WRAP" ->
           [cfg |-> [C EXCEPT !.buffer = Deque(C.stack), !.stack = <<>>],
            status |-> "ok"]
      [] type = "FINISH" -> [cfg |-> C, status |-> "ok"]

\* Configuration.apply_action: the branch, then (FINISH returns before it)
\* the assertion that stack and buffer do not overlap.
apply_action(C, type, tag, fuel) ==
    LET r == ApplyBranch(C, type, tag, fuel)
    IN IF r.status # "ok" THEN [cfg |-> r.cfg, status |-> r.status, ret |-> "None"]
       ELSE IF type = "FINISH" THEN [cfg |-> r.cfg, status |-> "ok", ret |-> "False"]
       ELSE IF StackBufferOverlap(r.cfg)
       THEN [cfg |-> r.cfg, status |-> "AssertionError: Stack and buffer overlap",
             ret |-> "None"]
       ELSE [cfg |-> r.cfg, status |-> "ok", ret |-> "True"]

\* The parent of the first incoming edge only
ParentsFirstOnly(C, n) ==
    IF C.nodes[n].incoming = <<>> THEN <<>>
    ELSE <<C.tedges[C.nodes[n].incoming[1]].parent>>

\* [edge.parent for edge in node.incoming]
Parents(C, n) ==
    [i \in 1..Len(C.nodes[n].incoming) |-> C.tedges[C.nodes[n].incoming[i]].parent]

\* for parent in unexplored_parents: stack.append(node); stack.append(parent)
PushPairs(node, unexplored) ==
    [i \in 1..(2 * Len(unexplored)) |->
        IF i % 2 = 1 THEN node ELSE unexplored[i \div 2]]

\* The level of a node whose parents all have theirs, with the least
\* parent level in place of the greatest
LevelUnderMin(lvl, ps) ==
    1 + CHOOSE m \in {lvl[ps[i]] : i \in 1..Len(ps)} :
            \A i \in 1..Len(ps) : lvl[ps[i]] >= m

\* 1 + max(level_by_index[parent.index] for parent in parents)
LevelAbove(lvl, ps) ==
    1 + CHOOSE m \in {lvl[ps[i]] : i \in 1..Len(ps)} :
            \A i \in 1..Len(ps) : lvl[ps[i]] <= m

\* The while loop of topological_sort.  lvl is level_by_index, -1 for a
\* node that is not in it; the loop is cut after `fuel` iterations.
RECURSIVE TopoLoop(_, _, _, _)
TopoLoop(C, stack, lvl, fuel) ==
    IF stack = <<>> THEN [lvl |-> lvl, status |-> "ok"]
    ELSE IF fuel = 0 THEN [lvl |-> lvl, status |-> "NoTermination"]
    ELSE IF lvl[stack[Len(stack)]] # -1
    THEN TopoLoop(C, StackPop(stack), lvl, fuel - 1)
    ELSE IF Parents(C, stack[Len(stack)]) = <<>>
    THEN TopoLoop(C, StackPop(stack), [lvl EXCEPT ![stack[Len(stack)]] = 0], fuel - 1)
    ELSE IF \E i \in 1..Len(Parents(C, stack[Len(stack)])) :
                lvl[Parents(C, stack[Len(stack)])[i]] = -1
    THEN TopoLoop(C,
                  StackPop(stack) \o
                    PushPairs(stack[Len(stack)],
                              SelectSeq(Parents(C, stack[Len(stack)]),
                                        LAMBDA q : lvl[q] = -1)),
                  lvl, fuel - 1)
    ELSE TopoLoop(C, StackPop(stack),
                  [lvl EXCEPT ![stack[Len(stack)]] =
                       LevelAbove(lvl, Parents(C, stack[Len(stack)]))],
                  fuel - 1)

\* stack = [node for node in self.nodes if not node.outgoing]
Leaves(C) == SelectSeq(C.order, LAMBDA n : C.nodes[n].outgoing = <<>>)

\* The new self.nodes: the nodes that got a level, by level and, within a
\* level, by index (node_index is None when parsing plain text)
SortedNodes(C, lvl) ==
    LET S == {n \in SeqSet(C.order) : lvl[n] # -1}
        Before(m, n) == \/ lvl[m] < lvl[n]
                        \/ lvl[m] = lvl[n] /\ C.nodes[m].index < C.nodes[n].index
    IN [i \in 1..Cardinality(S) |->
          CHOOSE n \in S : Cardinality({m \in S : Before(m, n)}) = i - 1]

\* self.nodes.index(v): the first position whose node is v or equals it
\* under Node.__eq__; 0 for ValueError, -1 for RecursionError
RECURSIVE NodesIndex(_, _, _, _)
NodesIndexFrom(C, v, i, fuel, r) ==
    IF r = "T" THEN i
    ELSE IF r = "Rec" THEN -1
    ELSE NodesIndex(C, v, i + 1, fuel)

NodesIndex(C, v, i, fuel) ==
    IF i > Len(C.order) THEN 0
    ELSE IF C.order[i] = v THEN i
    ELSE NodesIndexFrom(C, v, i, fuel, TNode_eq(C, C.order[i], v, fuel))

\* list.sort(key=...): stable, by the keys computed beforehand
StableSort(list, keys) ==
    [i \in 1..Len(list) |->
        list[CHOOSE j \in 1..Len(list) :
                Cardinality({k \in 1..Len(list) :
                                \/ keys[k] < keys[j]
                                \/ keys[k] = keys[j] /\ k < j}) = i - 1]]

\* The sort of one edge list by the position of the edge's other end
\* ("child" for outgoing, "parent" for incoming) in the new self.nodes
SortEdgesBy(list, keys) ==
    IF \E k \in 1..Len(keys) : keys[k] = -1
    THEN [list |-> list, status |-> "RecursionError"]
    ELSE IF \E k \in 1..Len(keys) : keys[k] = 0
    THEN [list |-> list, status |-> "ValueError"]
    ELSE [list |-> StableSort(list, keys), status |-> "ok"]

SortOutgoing(C, n, fuel) ==
    SortEdgesBy(C.nodes[n].outgoing,
                [k \in 1..Len(C.nodes[n].outgoing) |->
                    NodesIndex(C, C.tedges[C.nodes[n].outgoing[k]].child, 1, fuel)])

SortIncoming(C, n, fuel) ==
    SortEdgesBy(C.nodes[n].incoming,
                [k \in 1..Len(C.nodes[n].incoming) |->
                    NodesIndex(C, C.tedges[C.nodes[n].incoming[k]].parent, 1, fuel)])

\* The last loop of topological_sort, from position i of the new self.nodes
\* (side "out": node.outgoing is sorted next; "in": node.incoming)
RECURSIVE SortLists(_, _, _, _)
SortListsOut(C, i, fuel, r) ==
    IF r.status # "ok" THEN [cfg |-> C, status |-> r.status]
    ELSE SortLists([C EXCEPT !.nodes[C.order[i]].outgoing = r.list], i, "in", fuel)

SortListsIn(C, i, fuel, r) ==
    IF r.status # "ok" THEN [cfg |-> C, status |-> r.status]
    ELSE SortLists([C EXCEPT !.nodes[C.order[i]].incoming = r.list], i + 1, "out", fuel)

SortLists(C, i, side, fuel) ==
    IF i > Len(C.order) THEN [cfg |-> C, status |-> "ok"]
    ELSE IF side = "out" THEN SortListsOut(C, i, fuel, SortOutgoing(C, C.order[i], fuel))
    ELSE SortListsIn(C, i, fuel, SortIncoming(C, C.order[i], fuel))

\* Configuration.topological_sort: the levels, the new self.nodes and the
\* sorted edge lists; lvl is kept for the properties
TopoSorted(C, r, fuel, l) ==
    [cfg |-> l.cfg, lvl |-> r.lvl, status |-> l.status]

TopoLevelled(C, r, fuel) ==
    IF r.status # "ok" THEN [cfg |-> C, lvl |-> r.lvl, status |-> r.status]
    ELSE TopoSorted(C, r, fuel,
                    SortLists([C EXCEPT !.order = SortedNodes(C, r.lvl)], 1, "out", fuel))

topological_sort(C, steps, fuel) ==
    TopoLevelled(C, TopoLoop(C, Leaves(C), [n \in 1..Len(C.nodes) |-> -1], steps), fuel)

-----------------------------------------------------------------------------
(* Configuration.passage.  The modules layer0, layer1 and convert are not
   part of the sources read here; what they do is taken from the
   specification: from_text yields one terminal per token, Layer1.add_fnode,
   add_punct and add_linkage create one new unit each (under the head of
   the layer when the parent is None), and the tags are fixed strings.
   A persisted node is a positive number, terminals[i] is i + 1 and None
   is 0; the passage built is the list of the units and edges created. *)

EdgeTags_Terminal == "Terminal"
EdgeTags_Punctuation == "Punctuation"
EdgeTags_LinkRelation == "LinkRelation"
EdgeTags_LinkArgument == "LinkArgument"
PunctTexts == {"."}

\* layer0.is_punct(terminals[i]) for the terminal of a token's text
is_punct(text) == text \in PunctTexts

\* A unit or an edge created in the passage
Created(kind, parent, child, tag, remote) ==
    [kind |-> kind, parent |-> parent, child |-> child, tag |-> tag,
     remote |-> remote, args |-> <<>>]

\* l1.add_fnode(parent.node, tag) for the transient node c
add_fnode(F, c, pnode, tag) ==
    [F EXCEPT !.cfg.nodes[c].node = F.next,
              !.next = F.next + 1,
              !.log = Append(@, Created("fnode", pnode, F.next, tag, FALSE))]

\* l1.add_punct(parent.node, terminal) for the transient node c, and the
\* terminal's transient node t taking self.node[0].child
add_punct(F, c, pnode, t) ==
    [F EXCEPT !.cfg.nodes[c].node = F.next,
              !.cfg.nodes[t].node = F.cfg.nodes[t].index + 1,
              !.next = F.next + 1,
              !.log = Append(@, Created("punct", pnode, F.next,
                                        EdgeTags_Punctuation, FALSE))
                      \o <<Created("edge", F.next, F.cfg.nodes[t].index + 1,
                                   EdgeTags_Terminal, FALSE)>>]

\* l1.add_linkage(link_relation, *link_args) for the transient node n
add_linkage(F, n, relation, args) ==
    [F EXCEPT !.cfg.nodes[n].node = F.next,
              !.next = F.next + 1,
              !.log = Append(@, [Created("linkage", relation, F.next,
                                         EdgeTags_LinkRelation, FALSE)
                                     EXCEPT !.args = args])]

\* Node.is_linkage
is_linkage(C, n) ==
    /\ C.nodes[n].outgoing # <<>>
    /\ \A k \in 1..Len(C.nodes[n].outgoing) :
          C.tedges[C.nodes[n].outgoing[k]].tag \in
              {EdgeTags_LinkRelation, EdgeTags_LinkArgument}

\* parent.node.add(EdgeTags.Terminal, terminals[self.index]).child for the
\* terminal c: core.Node.add creates the edge, and `.child` is read from
\* what the decorated add returns
AddTerminal(F, c, pnode, returned) ==
    IF pnode = 0 THEN [F EXCEPT !.status = "AttributeError"]
    ELSE IF returned = <<"None">>
    THEN [F EXCEPT !.log = Append(@, Created("edge", pnode, F.cfg.nodes[c].index + 1,
                                             EdgeTags_Terminal, FALSE)),
                   !.status = "AttributeError"]
    ELSE [F EXCEPT !.log = Append(@, Created("edge", pnode, F.cfg.nodes[c].index + 1,
                                             EdgeTags_Terminal, FALSE)),
                   !.cfg.nodes[c].node = F.cfg.nodes[c].index + 1]

\* The elif condition of add_layer1_node: one outgoing edge, to a terminal
\* that is punctuation
WrapsPunct(C, c) ==
    /\ Len(C.nodes[c].outgoing) = 1
    /\ C.nodes[C.tedges[C.nodes[c].outgoing[1]].child].text # None
    /\ is_punct(C.nodes[C.tedges[C.nodes[c].outgoing[1]].child].text)

\* Node.add_layer1_node, called on the child c of an edge with parent p
add_layer1_node(F, c, p, tag) ==
    IF F.cfg.nodes[c].node # 0 /\ F.cfg.nodes[c].text = None
    THEN [F EXCEPT !.status = "AssertionError: Trying to create the same node twice"]
    ELSE IF F.cfg.nodes[c].text # None
    THEN IF F.cfg.nodes[c].node # 0 THEN F
         ELSE AddTerminal(F, c, F.cfg.nodes[p].node,
                          ModifyPassageReturns(Node_add_returns(0)))
    ELSE IF WrapsPunct(F.cfg, c)
    THEN IF tag # EdgeTags_Punctuation \/
            F.cfg.tedges[F.cfg.nodes[c].outgoing[1]].tag # EdgeTags_Terminal
         THEN [F EXCEPT !.status = "AssertionError"]
         ELSE add_punct(F, c, F.cfg.nodes[p].node,
                        F.cfg.tedges[F.cfg.nodes[c].outgoing[1]].child)
    ELSE add_fnode(F, c, F.cfg.nodes[p].node, tag)

\* for edge in node.outgoing, from the j-th edge: a remote edge joins the
\* list remotes, any other edge creates its child
RECURSIVE OutgoingPass(_, _, _)
OutgoingPassNext(F, n, j) ==
    IF F.status # "ok" THEN F ELSE OutgoingPass(F, n, j + 1)

OutgoingPass(F, n, j) ==
    IF j > Len(F.cfg.nodes[n].outgoing) THEN F
    ELSE IF F.cfg.tedges[F.cfg.nodes[n].outgoing[j]].remote
    THEN OutgoingPass([F EXCEPT !.remotes = Append(@, F.cfg.nodes[n].outgoing[j])],
                      n, j + 1)
    ELSE OutgoingPassNext(
             add_layer1_node(F, F.cfg.tedges[F.cfg.nodes[n].outgoing[j]].child, n,
                             F.cfg.tedges[F.cfg.nodes[n].outgoing[j]].tag),
             n, j)

\* The two assertions on a node of the loop over self.nodes; `node ==
\* self.root` is Node.__eq__
NodeChecks(C, n, fuel, eq) ==
    IF C.nodes[n].text = None /\ C.nodes[n].outgoing = <<>>
    THEN "AssertionError: Non-terminal leaf node"
    ELSE IF C.nodes[n].node # 0 THEN "ok"
    ELSE IF eq = "T" THEN "ok"
    ELSE IF eq = "Rec" THEN "RecursionError"
    ELSE IF is_linkage(C, n) THEN "ok"
    ELSE "AssertionError: Non-root without incoming"

\* for node in self.nodes, from position i
RECURSIVE PrimaryPass(_, _, _)
PrimaryPassNext(F, i, fuel) ==
    IF F.status # "ok" THEN F ELSE PrimaryPass(F, i + 1, fuel)

PrimaryPassNode(F, i, fuel, st) ==
    IF st # "ok" THEN [F EXCEPT !.status = st]
    ELSE IF is_linkage(F.cfg, F.cfg.order[i])
    THEN PrimaryPass([F EXCEPT !.linkages = Append(@, F.cfg.order[i])], i + 1, fuel)
    ELSE PrimaryPassNext(OutgoingPass(F, F.cfg.order[i], 1), i, fuel)

PrimaryPass(F, i, fuel) ==
    IF i > Len(F.cfg.order) THEN F
    ELSE PrimaryPassNode(F, i, fuel,
             NodeChecks(F.cfg, F.cfg.order[i], fuel,
                        TNode_eq(F.cfg, F.cfg.order[i], F.cfg.root, fuel)))

\* The loop over remotes with the edges added without the remote attribute
RECURSIVE RemotePassUnflagged(_, _)
RemotePassUnflagged(F, i) ==
    IF F.status # "ok" \/ i > Len(F.remotes) THEN F
    ELSE IF F.cfg.nodes[F.cfg.tedges[F.remotes[i]].parent].node = 0 \/
            F.cfg.nodes[F.cfg.tedges[F.remotes[i]].child].node = 0
    THEN [F EXCEPT !.status = "AttributeError"]
    ELSE RemotePassUnflagged(
             [F EXCEPT !.log = Append(@,
                  Created("edge", F.cfg.nodes[F.cfg.tedges[F.remotes[i]].parent].node,
                          F.cfg.nodes[F.cfg.tedges[F.remotes[i]].child].node,
                          F.cfg.tedges[F.remotes[i]].tag, FALSE))],
             i + 1)

\* for node, edge in remotes: node.node.add(edge.tag, edge.child.node,
\* edge_attrib={"remote": True}); core.Node.add fails on a child None
RECURSIVE RemotePass(_, _)
RemotePass(F, i) ==
    IF F.status # "ok" \/ i > Len(F.remotes) THEN F
    ELSE IF F.cfg.nodes[F.cfg.tedges[F.remotes[i]].parent].node = 0 \/
            F.cfg.nodes[F.cfg.tedges[F.remotes[i]].child].node = 0
    THEN [F EXCEPT !.status = "AttributeError"]
    ELSE RemotePass(
             [F EXCEPT !.log = Append(@,
                  Created("edge", F.cfg.nodes[F.cfg.tedges[F.remotes[i]].parent].node,
                          F.cfg.nodes[F.cfg.tedges[F.remotes[i]].child].node,
                          F.cfg.tedges[F.remotes[i]].tag, TRUE))],
             i + 1)

\* for edge in node.outgoing of the linkage node n, from the j-th edge:
\* L is [relation, args, status]
RECURSIVE LinkEdges(_, _, _, _)
LinkEdges(C, n, j, L) ==
    IF j > Len(C.nodes[n].outgoing) THEN L
    ELSE IF C.tedges[C.nodes[n].outgoing[j]].tag = EdgeTags_LinkRelation
    THEN IF L.relation # 0
         THEN [L EXCEPT !.status = "AssertionError: Multiple link relations"]
         ELSE LinkEdges(C, n, j + 1,
                        [L EXCEPT !.relation =
                             C.nodes[C.tedges[C.nodes[n].outgoing[j]].child].node])
    ELSE IF C.tedges[C.nodes[n].outgoing[j]].tag = EdgeTags_LinkArgument
    THEN LinkEdges(C, n, j + 1,
                   [L EXCEPT !.args =
                        Append(@, C.nodes[C.tedges[C.nodes[n].outgoing[j]].child].node)])
    ELSE LinkEdges(C, n, j + 1, L)

\* for node in linkages, from position i.  add_linkage links the new unit
\* to the relation and to every argument with core.Node.add, which fails on
\* an argument that is None.
RECURSIVE LinkagePass(_, _)
LinkageNode(F, i, L) ==
    IF L.status # "ok" THEN [F EXCEPT !.status = L.status]
    ELSE IF L.relation = 0
    THEN [F EXCEPT !.status = "AssertionError: No link relations"]
    ELSE IF ~(Len(L.args) > 1)
    THEN [F EXCEPT !.status = "AssertionError: Less than two link arguments"]
    ELSE IF \E k \in 1..Len(L.args) : L.args[k] = 0
    THEN [F EXCEPT !.status = "AttributeError"]
    ELSE LinkagePass(add_linkage(F, F.linkages[i], L.relation, L.args), i + 1)

LinkagePass(F, i) ==
    IF F.status # "ok" \/ i > Len(F.linkages) THEN F
    ELSE LinkageNode(F, i,
             LinkEdges(F.cfg, F.linkages[i], 1,
                       [relation |-> 0, args |-> <<>>, status |-> "ok"]))

\* from_text and Layer1(passage): the terminals are there, nothing else
PassageStart(C, status) ==
    [cfg |-> C, status |-> status, log |-> <<>>,
     next |-> Cardinality({n \in 1..Len(C.nodes) : C.nodes[n].text # None}) + 1,
     remotes |-> <<>>, linkages |-> <<>>]

PassageSorted(t, fuel) ==
    IF t.status # "ok" THEN PassageStart(t.cfg, t.status)
    ELSE LinkagePass(RemotePass(PrimaryPass(PassageStart(t.cfg, "ok"), 1, fuel), 1), 1)

\* Configuration.passage: [cfg, status, log, ...]; the passage is returned
\* when status is "ok"
passage(C, steps, fuel) == PassageSorted(topological_sort(C, steps, fuel), fuel)

ActionTypes == {"NODE", "EDGE", "REMOTE", "ROOT", "REDUCE", "SHIFT", "SWAP",
                "WRAP", "FINISH"}
Tagged == {"NODE", "EDGE", "REMOTE", "ROOT"}
ActionTags == {"A", "B", None}
Texts == {"a", "b"}
TokenLists == UNION {[1..n -> Texts] : n \in 1..MaxTokens}
CfgFuel == MaxCfgNodes * MaxCfgNodes + 1

CfgInit ==
    /\ \E tokens \in TokenLists : cfg = Configuration(tokens)
    /\ cresult = [op |-> "Configuration", tag |-> None, status |-> "ok",
                  ret |-> "None"]

\* config.apply_action(Action(type, tag)), with at most capN transient
\* nodes and capE transient edges
ApplyActionWithin(type, tag, capN, capE) ==
    /\ type = "NODE" => Len(cfg.nodes) < capN
    /\ type \in Tagged => Len(cfg.tedges) < capE
    /\ LET r == apply_action(cfg, type, tag, CfgFuel)
       IN /\ cfg' = r.cfg
          /\ cresult' = [op |-> type, tag |-> tag, status |-> r.status,
                         ret |-> r.ret]

ApplyAction(type, tag) == ApplyActionWithin(type, tag, MaxCfgNodes, MaxCfgEdges)

ConfigNext ==
    \/ \E type \in Tagged, tag \in ActionTags : ApplyAction(type, tag)
    \/ \E type \in ActionTypes \ Tagged : ApplyAction(type, None)

-----------------------------------------------------------------------------
(* scripts/fix_tokenization.py: expand_to_neighboring_punct.  Positions are
   counted from 0 as in the source; is_puncts[k] of the source is P[k + 1]. *)

\* while start > 1 ...: a loop that never looks at position 0
RECURSIVE ExpandStartSkipFirst(_, _)
ExpandStartSkipFirst(P, start) ==
    IF start > 1 /\ P[start] THEN ExpandStartSkipFirst(P, start - 1) ELSE start

\* while start > 0 and is_puncts[start - 1]: start -= 1
RECURSIVE ExpandStart(_, _)
ExpandStart(P, start) ==
    IF start > 0 /\ P[start] THEN ExpandStart(P, start - 1) ELSE start

\* while end < len(is_puncts) and is_puncts[end]: end += 1
RECURSIVE ExpandEnd(_, _)
ExpandEnd(P, end) ==
    IF end < Len(P) /\ P[end + 1] THEN ExpandEnd(P, end + 1) ELSE end

expand_to_neighboring_punct(i, is_puncts) ==
    <<ExpandStart(is_puncts, i), ExpandEnd(is_puncts, i + 1)>>

\* A call with a position of the list
TokInit ==
    \E n \in 1..MaxPuncts : \E P \in [1..n -> BOOLEAN] : \E i \in 0..(n - 1) :
        tok = [pc |-> "call", i |-> i, is_puncts |-> P, ret |-> <<>>]

TokReturn ==
    /\ tok.pc = "call"
    /\ tok' = [tok EXCEPT !.pc = "done",
                          !.ret = expand_to_neighboring_punct(tok.i, tok.is_puncts)]

\* No call of expand_to_neighboring_punct
TokIdle == tok = <<>>

\* No Configuration has been constructed
CfgIdle == cfg = <<>> /\ cresult = <<>>

Init == StoreInit /\ CfgIdle /\ TokIdle

Next == GraphNext(MaxNodes, MaxEdges) /\ UNCHANGED cfgVars /\ UNCHANGED tok

Spec == Init /\ [][Next]_vars

\* The store with the attribute maps and direct Edge construction
NextAttr ==
    (GraphNext(AttrNodes, AttrEdges) \/ AttrNext(AttrEdges, MaxAttrs))
    /\ UNCHANGED cfgVars /\ UNCHANGED tok

SpecAttr == Init /\ [][NextAttr]_vars

\* The store with the orderkey setters
NextOrder ==
    (GraphNext(OrderNodes, OrderEdges) \/ OrderNext)
    /\ UNCHANGED cfgVars /\ UNCHANGED tok

SpecOrder == Init /\ [][NextOrder]_vars

\* The parser's Configuration, driven by every action of the oracle
\* or the classifier; the store is not touched before the final passage
InitConfig == StoreInit /\ CfgInit /\ TokIdle

NextConfig == ConfigNext /\ UNCHANGED storeVars /\ UNCHANGED tok

SpecConfig == InitConfig /\ [][NextConfig]_vars

\* The Configuration driven only by actions that apply without an error
OkNext ==
    \/ \E type \in Tagged, tag \in ActionTags :
           ApplyAction(type, tag) /\ cresult'.status = "ok"
    \/ \E type \in ActionTypes \ Tagged :
           ApplyAction(type, None) /\ cresult'.status = "ok"

NextOk == OkNext /\ UNCHANGED storeVars /\ UNCHANGED tok

SpecOk == InitConfig /\ [][NextOk]_vars

\* The driver of the parser: actions that apply without an error until
\* FINISH or until the driver stops, then config.passage once.  The tags
\* are the ones the finalizer tells apart and one other tag.
FinalTags == {EdgeTags_Terminal, EdgeTags_Punctuation, EdgeTags_LinkRelation,
              EdgeTags_LinkArgument, "A"}
FinalTokenLists == UNION {[1..n -> PunctTexts \cup {"a"}] : n \in 1..MaxFinalTokens}

\* apply_action for each action of a list, until one raises
RECURSIVE Parse(_, _)
ParseNext(r, acts) ==
    IF r.status # "ok" THEN [cfg |-> r.cfg, status |-> r.status]
    ELSE Parse(r.cfg, Tail(acts))

Parse(C, acts) ==
    IF acts = <<>> THEN [cfg |-> C, status |-> "ok"]
    ELSE ParseNext(apply_action(C, acts[1][1], acts[1][2], CfgFuel), acts)

\* Three parses of the text "." that go beyond MaxFinalEdges.  The first
\* wraps the terminal in a punctuation node under a unit that also has a
\* remote edge to it.  The second builds two linkage nodes: one with a
\* relation and two arguments, and above it one with two relations (the
\* other linkage node and the terminal) and two arguments.  The third
\* builds a linkage node with two relations, both to the terminal.
RemoteParse ==
    <<<<"NODE", EdgeTags_Terminal>>, <<"WRAP", None>>,
      <<"NODE", EdgeTags_Punctuation>>, <<"REMOTE", "A">>, <<"ROOT", "A">>>>

LinkageParse ==
    <<<<"NODE", EdgeTags_Terminal>>, <<"NODE", EdgeTags_LinkArgument>>,
      <<"NODE", EdgeTags_LinkRelation>>, <<"REMOTE", EdgeTags_LinkArgument>>,
      <<"WRAP", None>>, <<"SHIFT", None>>, <<"SHIFT", None>>, <<"SWAP", None>>,
      <<"SHIFT", None>>, <<"WRAP", None>>, <<"SHIFT", None>>,
      <<"EDGE", EdgeTags_LinkRelation>>, <<"EDGE", EdgeTags_LinkArgument>>,
      <<"SHIFT", None>>, <<"SHIFT", None>>, <<"SWAP", None>>, <<"WRAP", None>>,
      <<"SHIFT", None>>, <<"SHIFT", None>>, <<"REMOTE", EdgeTags_LinkArgument>>,
      <<"SHIFT", None>>, <<"ROOT", EdgeTags_Punctuation>>, <<"SWAP", None>>,
      <<"WRAP", None>>, <<"SHIFT", None>>, <<"EDGE", EdgeTags_LinkRelation>>>>

RelationsParse ==
    <<<<"NODE", EdgeTags_Terminal>>, <<"NODE", EdgeTags_LinkRelation>>,
      <<"REMOTE", EdgeTags_LinkRelation>>, <<"SWAP", None>>,
      <<"ROOT", EdgeTags_Punctuation>>>>

FinalParses ==
    {<<tokens, <<>>>> : tokens \in FinalTokenLists}
        \cup {<<<<".">>, RemoteParse>>, <<<<".">>, LinkageParse>>,
              <<<<".">>, RelationsParse>>}

\* The Configuration of a text, after the actions of a parse
FinalInit ==
    \E run \in FinalParses :
        /\ cfg = Parse(Configuration(run[1]), run[2]).cfg
        /\ cresult = IF run[2] = <<>>
                     THEN [op |-> "Configuration", tag |-> None, status |-> "ok",
                           ret |-> "None"]
                     ELSE [op |-> run[2][Len(run[2])][1],
                           tag |-> run[2][Len(run[2])][2],
                           status |-> Parse(Configuration(run[1]), run[2]).status,
                           ret |-> "True"]

FinalApply(type, tag) ==
    /\ cresult.op \notin {"FINISH", "passage"}
    /\ ApplyActionWithin(type, tag, MaxFinalNodes, MaxFinalEdges)
    /\ cresult'.status = "ok"

\* config.passage: the Configuration it leaves, the exception or the passage
FinalizeTo(F) ==
    /\ cfg' = F.cfg
    /\ cresult' = [op |-> "passage", tag |-> None, status |-> F.status,
                   ret |-> IF F.status = "ok" THEN "Passage" ELSE "None",
                   finished |-> (cresult.op = "FINISH"), log |-> F.log]

Finalize ==
    /\ cresult.op # "passage"
    /\ FinalizeTo(passage(cfg, MaxSortSteps, CfgFuel))

FinalNext ==
    \/ \E type \in Tagged, tag \in FinalTags : FinalApply(type, tag)
    \/ \E type \in ActionTypes \ Tagged : FinalApply(type, None)
    \/ Finalize

InitFinal == StoreInit /\ FinalInit /\ TokIdle

NextFinal == FinalNext /\ UNCHANGED storeVars /\ UNCHANGED tok

SpecFinal == InitFinal /\ [][NextFinal]_vars

\* Calls of expand_to_neighboring_punct
InitPunct == StoreInit /\ CfgIdle /\ TokInit

NextPunct == TokReturn /\ UNCHANGED storeVars /\ UNCHANGED cfgVars

SpecPunct == InitPunct /\ [][NextPunct]_vars

-----------------------------------------------------------------------------
(* Properties of the graph store *)

Count(s, x) == Cardinality({i \in 1..Len(s) : s[i] = x})
NoDup(s) == Cardinality(SeqSet(s)) = Len(s)
graphVars == <<pattrib, layers, nodes, objs, edges>>

\* A node has a parent whose layer is the node's own layer
HasSameLayerParent(o) ==
    \E i \in 1..Len(objs[o].incoming) :
        LayerIdOf(objs, edges[objs[o].incoming[i]].parent) = LayerIdOf(objs, o)

\* C1: in every reachable state each layer's heads list holds exactly the
\* nodes of its all list that have no parent in the same layer, each once.
C1_HeadsAreParentless ==
    \A l \in DOMAIN layers :
        /\ NoDup(layers[l].heads)
        /\ SeqSet(layers[l].heads) =
               {n \in SeqSet(layers[l].all) : ~HasSameLayerParent(n)}

\* An edge handle occurs in some adjacency list
Linked(e) ==
    \E o \in 1..Len(objs) : InSeq(e, objs[o].outgoing) \/ InSeq(e, objs[o].incoming)

\* Some adjacency list holds an edge from or to node o
Touches(o) ==
    \E n \in 1..Len(objs) :
        \E e \in SeqSet(objs[n].outgoing) \cup SeqSet(objs[n].incoming) :
            edges[e].parent = o \/ edges[e].child = o

\* C5: node.destroy() removes every edge of the node from both endpoints'
\* lists and then the node from its Layer (all and heads) and the Passage.
C5_DestroyUnlinksEverything ==
    (result.op = "destroy" /\ result.status # "FrozenPassageError") =>
        /\ result.status = "ok"
        /\ ~Touches(result.self)
        /\ \A l \in DOMAIN layers :
               ~InSeq(result.self, layers[l].all) /\ ~InSeq(result.self, layers[l].heads)
        /\ objs[result.self].ID \notin DOMAIN nodes

\* C7: node.add(tag, child) returns the new Edge (parent node, child child,
\* tag tag), the one appended to node's outgoing and child's incoming.
C7_AddReturnsTheEdge ==
    (result.op = "add" /\ result.status = "ok") =>
        /\ result.ret = <<"Edge", result.edge>>
        /\ edges[result.edge].parent = result.self
        /\ edges[result.edge].child = result.arg[2]
        /\ edges[result.edge].tag = result.tag
        /\ InSeq(result.edge, objs[result.self].outgoing)
        /\ InSeq(result.edge, objs[result.arg[2]].incoming)

MutatingOps == {"Layer", "Node", "Edge", "add", "remove", "destroy",
                "attrib.set", "attrib.del"}

\* C2: on a frozen passage every mutating call raises FrozenPassageError and
\* leaves layers, nodes, adjacency lists, heads lists and attribute maps as
\* they were; attribute reads return what is stored.
C2_FrozenRejectsMutation ==
    [][frozen =>
         /\ result'.op \in MutatingOps =>
                result'.status = "FrozenPassageError" /\ UNCHANGED graphVars
         /\ result'.op = "attrib.get" =>
                /\ result'.status = "ok"
                /\ result'.ret = IF result'.arg[2] \in DOMAIN AttrOf(result'.self)
                                 THEN <<"val", AttrOf(result'.self)[result'.arg[2]]>>
                                 ELSE RNone
         /\ (result'.op = "attrib.getitem"
               /\ result'.arg[2] \in DOMAIN AttrOf(result'.self)) =>
                /\ result'.status = "ok"
                /\ result'.ret = <<"val", AttrOf(result'.self)[result'.arg[2]]>>
      ]_vars

\* a frozen passage holding an edge and an attribute refused an attribute write
C2_Witness ==
    /\ frozen
    /\ result.op = "attrib.set" /\ result.status = "FrozenPassageError"
    /\ AttrCount > 0
    /\ \E o \in 1..Len(objs) : objs[o].outgoing # <<>>

\* C3: no two registered nodes share an identifier (neither in the Passage
\* nor in a layer's all list), and creating a Node or Layer under an
\* identifier already present raises DuplicateIdError and changes nothing.
C3_UniqueIdentifiers ==
    /\ [](/\ \A ID \in DOMAIN nodes : objs[nodes[ID]].ID = ID
          /\ \A l \in DOMAIN layers :
                \A i, j \in 1..Len(layers[l].all) :
                    objs[layers[l].all[i]].ID = objs[layers[l].all[j]].ID => i = j)
    /\ [][/\ (result'.op = "Node" /\ ~frozen /\ result'.arg[2] \in DOMAIN nodes) =>
                result'.status = "DuplicateIdError"
                /\ UNCHANGED <<nodes, layers, objs, edges>>
          /\ (result'.op = "Layer" /\ ~frozen /\ result'.arg[2] \in DOMAIN layers) =>
                result'.status = "DuplicateIdError"
                /\ UNCHANGED <<nodes, layers, objs, edges>>
        ]_vars

\* a Node was refused as a duplicate while its layer held two nodes
C3_Witness ==
    /\ result.op = "Node" /\ result.status = "DuplicateIdError"
    /\ \E l \in DOMAIN layers : Len(layers[l].all) = 2

\* C4 as stated: after add the child is among node.children and the node
\* among child.parents; after the matching remove neither is.
C4_RemoveEndsMembership ==
    /\ (result.op = "add" /\ result.status = "ok") =>
          /\ InSeq(result.arg[2], children(objs, edges, result.self))
          /\ InSeq(result.self, parents(objs, edges, result.arg[2]))
    /\ (result.op = "remove" /\ result.status = "ok") =>
          /\ ~InSeq(result.arg[3], children(objs, edges, result.self))
          /\ ~InSeq(result.self, parents(objs, edges, result.arg[3]))

\* C4 amended: after add the child is among node.children and the node
\* among child.parents; the matching remove takes exactly one edge
\* node -> child out of both lists, so both memberships are gone exactly
\* when that was the only edge from node to child.
C4_RemoveTakesOneEdge ==
    [][/\ (result'.op = "add" /\ result'.status = "ok") =>
            /\ InSeq(result'.arg[2], children(objs', edges', result'.self))
            /\ InSeq(result'.self, parents(objs', edges', result'.arg[2]))
       /\ (result'.op = "remove" /\ result'.status = "ok") =>
            LET n == result'.self
                c == result'.arg[3]
            IN /\ \A o \in 1..Len(objs') :
                     /\ ~InSeq(result'.edge, objs'[o].outgoing)
                     /\ ~InSeq(result'.edge, objs'[o].incoming)
               /\ Count(children(objs', edges', n), c)
                     = Count(children(objs, edges, n), c) - 1
               /\ Count(parents(objs', edges', c), n)
                     = Count(parents(objs, edges, c), n) - 1
               /\ Count(children(objs, edges, n), c) = 1 =>
                     /\ ~InSeq(c, children(objs', edges', n))
                     /\ ~InSeq(n, parents(objs', edges', c))
      ]_vars

\* one of two edges from a node to the same child was removed
C4_Witness ==
    /\ result.op = "remove" /\ result.status = "ok"
    /\ InSeq(result.arg[3], children(objs, edges, result.self))

ConnectedTo(self, x) ==
    \/ x[1] = "edge" /\ InSeq(x[2], objs[self].outgoing)
    \/ x[1] = "node" /\ InSeq(x[2], children(objs, edges, self))

\* C8: node.remove(x) with x neither an outgoing edge of node nor the child
\* of one raises MissingNodeError and leaves all adjacency and heads lists
\* alone; with x a child reached by several edges exactly one of them goes.
C8_RemoveOfUnconnected ==
    [][(result'.op = "remove" /\ ~frozen) =>
         LET self == result'.self
             x == <<result'.arg[1], result'.arg[2]>>
         IN /\ ~ConnectedTo(self, x) =>
                 /\ result'.status = "MissingNodeError"
                 /\ UNCHANGED <<layers, nodes, objs, edges>>
            /\ (x[1] = "node" /\ ConnectedTo(self, x)) =>
                 /\ result'.status = "ok"
                 /\ Len(objs'[self].outgoing) = Len(objs[self].outgoing) - 1
                 /\ Count(children(objs', edges', self), x[2])
                       = Count(children(objs, edges, self), x[2]) - 1
                 /\ \A o \in 1..Len(objs) :
                       /\ o # self => objs'[o].outgoing = objs[o].outgoing
                       /\ o # x[2] => objs'[o].incoming = objs[o].incoming
      ]_vars

\* a remove of an unconnected node was refused by a node that has an edge
C8_Witness ==
    /\ result.op = "remove" /\ result.status = "MissingNodeError"
    /\ result.arg[1] = "node"
    /\ objs[result.self].outgoing # <<>>

\* C9: node.orderkey = f leaves the node's outgoing and incoming lists
\* sorted by f, layer.orderkey = f leaves all and heads sorted by f, and
\* every later add keeps the lists it touches sorted by the key in force.
C9_OrderkeySortsLists ==
    /\ result.op = "node.orderkey" =>
          LET kf == NodeKeyFn(result.arg[2], objs, edges)
          IN /\ IsSortedBy(objs[result.self].outgoing, kf)
             /\ IsSortedBy(objs[result.self].incoming, kf)
    /\ result.op = "layer.orderkey" =>
          LET kf == LayerKeyFn(result.arg[2], objs)
          IN /\ IsSortedBy(layers[result.self].all, kf)
             /\ IsSortedBy(layers[result.self].heads, kf)
    /\ (result.op = "add" /\ result.status = "ok") =>
          /\ IsSortedBy(objs[result.self].outgoing,
                        NodeKeyFn(objs[result.self].orderkey, objs, edges))
          /\ IsSortedBy(objs[result.arg[2]].incoming,
                        NodeKeyFn(objs[result.arg[2]].orderkey, objs, edges))
          /\ \A l \in DOMAIN layers :
                /\ IsSortedBy(layers[l].all, LayerKeyFn(layers[l].orderkey, objs))
                /\ IsSortedBy(layers[l].heads, LayerKeyFn(layers[l].orderkey, objs))

\* C28: in every reachable Passage state a node is registered in the
\* Passage's node set if and only if it is in the all list of its Layer; so
\* a Node created with the ID of an absent layer, which fails with a lookup
\* error, is not registered.
C28_NodeSetMatchesLayers ==
    /\ \A ID \in DOMAIN nodes :
          /\ ID[1] \in DOMAIN layers
          /\ InSeq(nodes[ID], layers[ID[1]].all)
    /\ \A l \in DOMAIN layers : \A i \in 1..Len(layers[l].all) :
          /\ objs[layers[l].all[i]].ID \in DOMAIN nodes
          /\ nodes[objs[layers[l].all[i]].ID] = layers[l].all[i]

-----------------------------------------------------------------------------
(* Properties of the parser's Configuration *)

\* C10: in every reachable Configuration the nodes on the stack and the
\* nodes in the buffer are disjoint, the "Stack and buffer overlap"
\* assertion never fails, and no node occurs twice within the stack or
\* within the buffer.
C10_StackBufferDisjoint ==
    /\ SeqSet(cfg.stack) \cap SeqSet(cfg.buffer) = {}
    /\ NoDup(cfg.stack)
    /\ NoDup(cfg.buffer)
    /\ cresult.status # "AssertionError: Stack and buffer overlap"

\* a SHIFT succeeded with a node created by NODE wrapped back into the
\* buffer behind it
C10_Witness ==
    /\ cresult.op = "SHIFT" /\ cresult.status = "ok"
    /\ cfg.stack # <<>>
    /\ \E i \in 1..Len(cfg.buffer) : cfg.buffer[i] > cfg.root

\* The transient edge an action of the given type and tag tries to add,
\* and whether the stack and buffer hold the nodes it names
Attempt(C, type, tag) ==
    CASE type = "NODE" -> TEdge(Len(C.nodes) + 1, Head(C.buffer), tag, FALSE)
      [] type = "EDGE" -> TEdge(C.stack[Len(C.stack)], Head(C.buffer), tag, FALSE)
      [] type = "REMOTE" -> TEdge(C.stack[Len(C.stack)], Head(C.buffer), tag, TRUE)
      [] type = "ROOT" -> TEdge(C.root, C.stack[Len(C.stack)], tag, FALSE)

Attempts(C, type) ==
    CASE type = "NODE" -> C.buffer # <<>>
      [] type \in {"EDGE", "REMOTE"} -> C.stack # <<>> /\ C.buffer # <<>>
      [] type = "ROOT" -> C.stack # <<>>
      [] OTHER -> FALSE

\* The edge e is the last edge of C, of its parent's outgoing list and of
\* its child's incoming list
IsLastEdge(C, e) ==
    /\ C.tedges # <<>>
    /\ C.tedges[Len(C.tedges)] = e
    /\ C.nodes[e.parent].outgoing # <<>>
    /\ C.nodes[e.parent].outgoing[Len(C.nodes[e.parent].outgoing)] = Len(C.tedges)
    /\ C.nodes[e.child].incoming # <<>>
    /\ C.nodes[e.child].incoming[Len(C.nodes[e.child].incoming)] = Len(C.tedges)

\* C11: adding a transient edge is rejected exactly when its tag is
\* missing, or its parent and child are the same node, or an existing
\* transient edge has the same parent, child, tag and remote flag; in every
\* other case the edge is appended to parent.outgoing and child.incoming.
C11_EdgeRejectedExactlyWhen ==
    [][(cresult'.op \in Tagged /\ Attempts(cfg, cresult'.op)) =>
         LET e == Attempt(cfg, cresult'.op, cresult'.tag)
         IN /\ cresult'.status # "ok" <=>
                 \/ e.tag = None
                 \/ e.parent = e.child
                 \/ \E k \in 1..Len(cfg.tedges) : cfg.tedges[k] = e
            /\ cresult'.status = "ok" =>
                 /\ Len(cfg'.tedges) = Len(cfg.tedges) + 1
                 /\ IsLastEdge(cfg', e)
      ]_vars

\* Configuration.apply_action over a list of <<type, tag>> actions, stopping
\* at the first one that raises
RECURSIVE RunActions(_, _)
RunActions(C, acts) ==
    IF acts = <<>> THEN [cfg |-> C, status |-> "ok"]
    ELSE LET r == apply_action(C, acts[1][1], acts[1][2], CfgFuel)
         IN IF r.status # "ok" THEN [cfg |-> r.cfg, status |-> r.status]
            ELSE RunActions(r.cfg, Tail(acts))

C12_Actions ==
    <<<<"SHIFT", None>>, <<"NODE", "A">>, <<"EDGE", "B">>, <<"ROOT", "C">>,
      <<"FINISH", None>>>>

\* C12: from the initial Configuration of a single-token input the actions
\* SHIFT, NODE("A"), EDGE("B"), ROOT("C"), FINISH are applied without
\* error, and the graph handed to the finalizer has the one terminal, one
\* non-terminal with an "A" edge and a "B" edge to the terminal, and a "C"
\* edge from the root to the non-terminal.
C12_SequenceBuildsGraph ==
    (cresult.op = "Configuration" /\ Len(cfg.buffer) = 1) =>
        LET r == RunActions(cfg, C12_Actions)
            n == cfg.root + 1
        IN /\ r.status = "ok"
           /\ Len(r.cfg.nodes) = 3
           /\ {r.cfg.tedges[k] : k \in 1..Len(r.cfg.tedges)} =
                 {TEdge(n, 1, "A", FALSE), TEdge(n, 1, "B", FALSE),
                  TEdge(cfg.root, n, "C", FALSE)}

\* The worked example of SHIFT: three tokens in the buffer, an empty stack
C13_Example ==
    LET r == apply_action(Configuration(<<"a", "b", "a">>), "SHIFT", None, CfgFuel)
    IN r.status = "ok" /\ r.cfg.stack = <<1>> /\ r.cfg.buffer = <<2, 3>>

\* C13: SHIFT on a non-empty buffer succeeds, puts the buffer's front node
\* on top of the stack above the previous stack nodes, keeps the rest of
\* the buffer in order and adds no node and no edge (buffer [t1,t2,t3] and
\* an empty stack become stack [t1], buffer [t2,t3]).
C13_ShiftMovesFront ==
    [][(cresult'.op = "SHIFT" /\ cfg.buffer # <<>>) =>
         /\ cresult'.status = "ok"
         /\ cfg'.stack = cfg.stack \o <<Head(cfg.buffer)>>
         /\ cfg'.buffer = Tail(cfg.buffer)
         /\ cfg'.nodes = cfg.nodes
         /\ cfg'.tedges = cfg.tedges
         /\ C13_Example
      ]_vars

\* a SHIFT put a terminal above a node already on the stack and left a
\* terminal in the buffer
C13_Witness ==
    /\ cresult.op = "SHIFT" /\ cresult.status = "ok"
    /\ Len(cfg.stack) >= 2
    /\ cfg.stack[Len(cfg.stack)] < cfg.root
    /\ cfg.buffer # <<>>

\* C14: WRAP makes the buffer the stack's contents before the action,
\* bottom first at the front, and empties the stack (stack [a,b,c] and an
\* empty buffer become buffer [a,b,c], stack []).
C14_WrapMovesStack ==
    [][cresult'.op = "WRAP" =>
         /\ cresult'.status = "ok"
         /\ cfg'.buffer = cfg.stack
         /\ cfg'.stack = <<>>
      ]_vars

\* a WRAP moved a stack of three nodes, a created node at the bottom and
\* the two terminals above it, to the buffer
C14_Witness ==
    /\ cresult.op = "WRAP" /\ cresult.status = "ok"
    /\ cfg.stack = <<>>
    /\ cfg.buffer = <<cfg.root + 1, 1, 2>>

\* C15: NODE(tag) with a tag, on a non-empty buffer, succeeds, appends
\* exactly one new transient node whose index no other node has, adds
\* exactly one non-remote edge with the tag from the new node to the buffer
\* head, pushes the new node on top of the stack and leaves the buffer
\* unchanged.
C15_NodeCreatesParent ==
    [][(cresult'.op = "NODE" /\ cresult'.tag # None /\ cfg.buffer # <<>>) =>
         LET new == Len(cfg.nodes) + 1
             e == TEdge(new, Head(cfg.buffer), cresult'.tag, FALSE)
         IN /\ cresult'.status = "ok"
            /\ Len(cfg'.nodes) = new
            /\ \A i \in 1..Len(cfg.nodes) : cfg'.nodes[i].index # cfg'.nodes[new].index
            /\ cfg'.tedges = Append(cfg.tedges, e)
            /\ IsLastEdge(cfg', e)
            /\ cfg'.stack = Append(cfg.stack, new)
            /\ cfg'.buffer = cfg.buffer
      ]_vars

\* The two configurations hold the same nodes: as many, with the same
\* index and text
SameNodeList(C, D) ==
    /\ Len(C.nodes) = Len(D.nodes)
    /\ \A i \in 1..Len(C.nodes) :
         C.nodes[i].index = D.nodes[i].index /\ C.nodes[i].text = D.nodes[i].text

\* The edge EDGE(tag) or REMOTE(tag) is to add to C
StackTopToBufferHead(C, type, tag) ==
    [parent |-> C.stack[Len(C.stack)], child |-> Head(C.buffer), tag |-> tag,
     remote |-> (type = "REMOTE")]

\* C16 as stated: EDGE(tag) and REMOTE(tag) with a tag, on a non-empty
\* stack and buffer, add exactly one transient edge from the stack top to
\* the buffer head with the tag (remote only for REMOTE) and leave the
\* stack, the buffer and the node list unchanged.
C16_EdgeAddsOne ==
    [][(cresult'.op \in {"EDGE", "REMOTE"} /\ cresult'.tag # None
        /\ cfg.stack # <<>> /\ cfg.buffer # <<>>) =>
         LET e == StackTopToBufferHead(cfg, cresult'.op, cresult'.tag)
         IN /\ cresult'.status = "ok"
            /\ cfg'.tedges = Append(cfg.tedges, e)
            /\ IsLastEdge(cfg', e)
            /\ cfg'.stack = cfg.stack
            /\ cfg'.buffer = cfg.buffer
            /\ SameNodeList(cfg, cfg')
      ]_vars

\* C16 amended: EDGE(tag) and REMOTE(tag) on a non-empty stack and buffer
\* either add exactly one transient edge from the stack top to the buffer
\* head with the tag (remote only for REMOTE), or raise an error and add no
\* edge, as they always do when that very edge exists already; in both
\* cases the stack, the buffer and the node list are unchanged.
C16_EdgeAddsOneOrRaises ==
    [][(cresult'.op \in {"EDGE", "REMOTE"} /\ cfg.stack # <<>> /\ cfg.buffer # <<>>) =>
         LET e == StackTopToBufferHead(cfg, cresult'.op, cresult'.tag)
         IN /\ cresult'.status = "ok" =>
                 /\ cfg'.tedges = Append(cfg.tedges, e)
                 /\ IsLastEdge(cfg', e)
            /\ cresult'.status # "ok" =>
                 /\ cfg'.tedges = cfg.tedges
                 /\ cfg'.nodes = cfg.nodes
            /\ (\E k \in 1..Len(cfg.tedges) : cfg.tedges[k] = e) =>
                 cresult'.status # "ok"
            /\ cfg'.stack = cfg.stack
            /\ cfg'.buffer = cfg.buffer
            /\ SameNodeList(cfg, cfg')
      ]_vars

\* a REMOTE added a remote edge beside a non-remote edge between the same
\* two nodes
C16_Witness ==
    /\ cresult.op = "REMOTE" /\ cresult.status = "ok"
    /\ Len(cfg.tedges) >= 2
    /\ cfg.tedges[Len(cfg.tedges)].remote
    /\ \E k \in 1..(Len(cfg.tedges) - 1) :
         /\ cfg.tedges[k].parent = cfg.tedges[Len(cfg.tedges)].parent
         /\ cfg.tedges[k].child = cfg.tedges[Len(cfg.tedges)].child
         /\ ~cfg.tedges[k].remote

\* C17: ROOT(tag) with a tag, on a non-empty stack, succeeds, adds exactly
\* one transient edge with the tag from the implicit root to the node that
\* was on top of the stack, pops exactly that node from the stack and
\* leaves the buffer unchanged.
C17_RootAttachesTop ==
    [][(cresult'.op = "ROOT" /\ cresult'.tag # None /\ cfg.stack # <<>>) =>
         LET e == [parent |-> cfg.root, child |-> cfg.stack[Len(cfg.stack)],
                   tag |-> cresult'.tag, remote |-> FALSE]
         IN /\ cresult'.status = "ok"
            /\ cfg'.tedges = Append(cfg.tedges, e)
            /\ IsLastEdge(cfg', e)
            /\ cfg'.stack = SubSeq(cfg.stack, 1, Len(cfg.stack) - 1)
            /\ cfg'.buffer = cfg.buffer
      ]_vars

\* C18: SWAP on a stack of at least two elements succeeds, exchanges the
\* top two stack elements and leaves every other stack element, the buffer,
\* the node list and all transient edges unchanged; a second SWAP restores
\* the original stack.
C18_SwapExchangesTopTwo ==
    [][(cresult'.op = "SWAP" /\ Len(cfg.stack) >= 2) =>
         LET n == Len(cfg.stack)
             again == apply_action(cfg', "SWAP", None, CfgFuel)
         IN /\ cresult'.status = "ok"
            /\ cfg'.stack = SubSeq(cfg.stack, 1, n - 2) \o <<cfg.stack[n], cfg.stack[n - 1]>>
            /\ cfg'.buffer = cfg.buffer
            /\ cfg'.nodes = cfg.nodes
            /\ cfg'.tedges = cfg.tedges
            /\ again.status = "ok"
            /\ again.cfg.stack = cfg.stack
      ]_vars

\* a SWAP exchanged the two terminals above a created node that stayed at
\* the bottom of the stack
C18_Witness ==
    /\ cresult.op = "SWAP" /\ cresult.status = "ok"
    /\ cfg.stack = <<cfg.root + 1, 2, 1>>

\* The stack and buffer of C do not hold what an action of the type needs
PreconditionFails(C, type) ==
    CASE type \in {"NODE", "SHIFT"} -> C.buffer = <<>>
      [] type \in {"EDGE", "REMOTE"} -> C.stack = <<>> \/ C.buffer = <<>>
      [] type \in {"ROOT", "REDUCE"} -> C.stack = <<>>
      [] type = "SWAP" -> Len(C.stack) < 2
      [] OTHER -> FALSE

\* C19: an action applied when its precondition fails raises an error and
\* returns nothing: NODE or SHIFT with an empty buffer, EDGE or REMOTE with
\* an empty stack or an empty buffer, ROOT or REDUCE with an empty stack,
\* SWAP with fewer than two stack elements.
C19_FailedPreconditionRaises ==
    [][PreconditionFails(cfg, cresult'.op) =>
         (cresult'.status # "ok" /\ cresult'.ret = "None")]_vars

\* a REDUCE has been refused on a stack that a previous action had emptied
C19_Witness ==
    /\ cresult.op = "REDUCE" /\ cresult.status = "IndexError"
    /\ cfg.stack = <<>>
    /\ cfg.buffer # <<>>
    /\ cfg.tedges # <<>>

\* C20: in every Configuration reachable by any sequence of actions the
\* implicit root is neither on the stack nor in the buffer.
C20_RootNeverOnStackOrBuffer ==
    /\ cfg.root \notin SeqSet(cfg.stack)
    /\ cfg.root \notin SeqSet(cfg.buffer)

\* a ROOT gave the root an edge while nodes remain on the stack and in a
\* buffer that a WRAP refilled with a created node
C20_Witness ==
    /\ cresult.op = "ROOT" /\ cresult.status = "ok"
    /\ cfg.nodes[cfg.root].outgoing # <<>>
    /\ cfg.stack # <<>>
    /\ \E i \in 1..Len(cfg.buffer) : cfg.buffer[i] > cfg.root

-----------------------------------------------------------------------------
(* Properties of the finalizer's topological sort *)

\* The nodes reached from the nodes of S along at most k transient edges
RECURSIVE Descendants(_, _, _)
Descendants(C, S, k) ==
    IF k = 0 THEN S
    ELSE Descendants(C, S \cup {C.tedges[j].child : j \in
                                   {j \in 1..Len(C.tedges) : C.tedges[j].parent \in S}},
                     k - 1)

Children(C, n) ==
    {C.tedges[j].child : j \in {j \in 1..Len(C.tedges) : C.tedges[j].parent = n}}

\* No node reaches itself along transient edges
Acyclic(C) ==
    \A n \in 1..Len(C.nodes) :
        n \notin Descendants(C, Children(C, n), Len(C.nodes))

\* The position of node n in the list order, 0 when it is not in it
Pos(order, n) ==
    IF n \in SeqSet(order) THEN CHOOSE i \in 1..Len(order) : order[i] = n ELSE 0

\* C22: for an acyclic transient graph the topological sort succeeds and
\* every transient edge's parent comes strictly before its child in the
\* sorted node list.
C22_ParentsBeforeChildren ==
    Acyclic(cfg) =>
        LET t == topological_sort(cfg, MaxSortSteps, CfgFuel)
        IN /\ t.status = "ok"
           /\ \A j \in 1..Len(cfg.tedges) :
                /\ Pos(t.cfg.order, cfg.tedges[j].parent) > 0
                /\ Pos(t.cfg.order, cfg.tedges[j].parent) <
                       Pos(t.cfg.order, cfg.tedges[j].child)

\* an acyclic graph in which a node created later is the parent of a node
\* created earlier that has a child of its own, and the sort moved nodes
C22_Witness ==
    /\ Acyclic(cfg)
    /\ \E j, k \in 1..Len(cfg.tedges) :
         /\ cfg.tedges[j].child = cfg.tedges[k].parent
         /\ cfg.tedges[j].parent > cfg.tedges[k].parent
    /\ topological_sort(cfg, MaxSortSteps, CfgFuel).cfg.order # cfg.order

\* C23: for an acyclic transient graph the topological sort gives every
\* node one level, 0 for a node without incoming edge and 1 + the greatest
\* level of its parents otherwise, and the sorted node list holds every
\* node of the configuration exactly once, in non-decreasing level.
C23_LevelsAreLongestPaths ==
    Acyclic(cfg) =>
        LET t == topological_sort(cfg, MaxSortSteps, CfgFuel)
            ps(n) == {cfg.tedges[cfg.nodes[n].incoming[i]].parent :
                         i \in 1..Len(cfg.nodes[n].incoming)}
        IN /\ t.status = "ok"
           /\ \A n \in 1..Len(cfg.nodes) :
                /\ t.lvl[n] >= 0
                /\ ps(n) = {} => t.lvl[n] = 0
                /\ ps(n) # {} =>
                     /\ \A q \in ps(n) : t.lvl[n] >= 1 + t.lvl[q]
                     /\ \E q \in ps(n) : t.lvl[n] = 1 + t.lvl[q]
           /\ Len(t.cfg.order) = Len(cfg.nodes)
           /\ SeqSet(t.cfg.order) = 1..Len(cfg.nodes)
           /\ \A i \in 1..(Len(t.cfg.order) - 1) :
                t.lvl[t.cfg.order[i]] <= t.lvl[t.cfg.order[i + 1]]

\* an acyclic graph with a node whose two parents are on different levels
C23_Witness ==
    /\ Acyclic(cfg)
    /\ \E n \in 1..Len(cfg.nodes) :
         \E i, j \in 1..Len(cfg.nodes[n].incoming) :
            topological_sort(cfg, MaxSortSteps, CfgFuel).lvl[cfg.tedges[cfg.nodes[n].incoming[i]].parent]
              < topological_sort(cfg, MaxSortSteps, CfgFuel).lvl[cfg.tedges[cfg.nodes[n].incoming[j]].parent]

\* C29: in every Configuration reached by successfully applied actions the
\* transient graph formed by all transient edges is acyclic.
C29_TransientGraphAcyclic == Acyclic(cfg)

\* C30: for every Configuration reached by successfully applied actions
\* the work-stack loop of the topological sort comes to an end.
C30_SortTerminates ==
    topological_sort(cfg, MaxSortSteps, CfgFuel).status # "NoTermination"

-----------------------------------------------------------------------------
(* Properties of the tokenization script *)

\* C27: expand_to_neighboring_punct(i, is_puncts) returns (start, end) with
\* start <= i < end such that every position of [start, end) other than i
\* is punctuation, and the range is maximal: start is 0 or position
\* start - 1 is not punctuation, end is the length of the list or position
\* end is not punctuation.
C27_ExpandIsMaximalPunctRun ==
    tok.pc = "done" =>
        LET start == tok.ret[1]
            end == tok.ret[2]
            P == tok.is_puncts
        IN /\ start <= tok.i /\ tok.i < end
           /\ 0 <= start /\ end <= Len(P)
           /\ \A k \in start..(end - 1) : k # tok.i => P[k + 1]
           /\ start = 0 \/ ~P[start]
           /\ end = Len(P) \/ ~P[end + 1]

\* a call returned a range that grew on both sides and stopped on the left
\* at the start of the list
C27_Witness ==
    /\ tok.pc = "done"
    /\ tok.ret[1] = 0 /\ tok.ret[1] < tok.i
    /\ tok.ret[2] > tok.i + 1 /\ tok.ret[2] < Len(tok.is_puncts)

-----------------------------------------------------------------------------
(* Properties of Configuration.passage *)

\* C21: requesting the passage of a Configuration to which FINISH has not
\* been applied fails with an error and produces no Passage.
C21_UnfinishedIsRefused ==
    (cresult.op = "passage" /\ ~cresult.finished)
        => (cresult.status # "ok" /\ cresult.ret = "None")

\* The two malformed-graph conditions on a transient graph: a node other
\* than the root with neither text nor an outgoing edge, or a node that is
\* neither the root nor a linkage with no incoming edge
Malformed(C) ==
    \E n \in 1..Len(C.nodes) :
        /\ n # C.root
        /\ \/ C.nodes[n].text = None /\ C.nodes[n].outgoing = <<>>
           \/ ~is_linkage(C, n) /\ C.nodes[n].incoming = <<>>

MalformedErrors ==
    {"AssertionError: Non-terminal leaf node",
     "AssertionError: Non-root without incoming"}

\* C25: finalization fails on one of the two node checks exactly when some
\* node other than the root has neither text nor an outgoing edge, or some
\* node that is neither the root nor a linkage has no incoming edge; a
\* graph with neither passes both checks.
C25_ChecksFailExactlyOnMalformed ==
    cresult.op = "passage"
        => ((cresult.status \in MalformedErrors) <=> Malformed(cfg))

\* The transient edges flagged remote, and those of them whose parent is
\* not a linkage node
RemoteEdges(C) == {k \in 1..Len(C.tedges) : C.tedges[k].remote}
DeferredEdges(C) == {k \in RemoteEdges(C) : ~is_linkage(C, C.tedges[k].parent)}

\* The persisted edge of the transient remote edge k, between the persisted
\* nodes of its ends
PersistedRemote(C, k) ==
    [kind |-> "edge", parent |-> C.nodes[C.tedges[k].parent].node,
     child |-> C.nodes[C.tedges[k].child].node, tag |-> C.tedges[k].tag,
     remote |-> TRUE, args |-> <<>>]

\* What the primary pass creates: units, and edges that are not remote
IsPrimary(c) == c.kind \in {"fnode", "punct"} \/ (c.kind = "edge" /\ ~c.remote)

\* In the passage returned, the remote edges of the set E of transient
\* edges are each one persisted remote edge between persisted nodes, come
\* after everything the primary pass created, and are all that is flagged
\* remote.
RemotesMaterialized(C, log, E) ==
    /\ \A k \in E :
          /\ C.nodes[C.tedges[k].parent].node # 0
          /\ C.nodes[C.tedges[k].child].node # 0
          /\ Cardinality({i \in 1..Len(log) : log[i] = PersistedRemote(C, k)}) = 1
    /\ \A i \in 1..Len(log) :
          log[i].remote =>
             /\ log[i].kind = "edge"
             /\ \E k \in E : log[i] = PersistedRemote(C, k)
             /\ \A j \in 1..Len(log) : IsPrimary(log[j]) => j < i

\* C26 as stated: every transient edge flagged remote is deferred during
\* the primary pass and materialized only after it, as exactly one
\* persisted edge flagged remote between the persisted counterparts of its
\* parent and child, and creates no persisted node.
C26_EveryRemoteDeferred ==
    (cresult.op = "passage" /\ cresult.status = "ok")
        => RemotesMaterialized(cfg, cresult.log, RemoteEdges(cfg))

\* C26, amended: the same of every transient edge flagged remote whose
\* parent is not a linkage node.
C26_RemoteOfNonLinkageDeferred ==
    (cresult.op = "passage" /\ cresult.status = "ok")
        => RemotesMaterialized(cfg, cresult.log, DeferredEdges(cfg))

C26_Witness ==
    /\ cresult.op = "passage"
    /\ cresult.status = "ok"
    /\ DeferredEdges(cfg) # {}
    /\ \E i \in 1..Len(cresult.log) : cresult.log[i].remote

\* The number of outgoing edges of the node n with the given tag
TagCount(C, n, tag) ==
    Cardinality({k \in 1..Len(C.nodes[n].outgoing) :
                    C.tedges[C.nodes[n].outgoing[k]].tag = tag})

WellFormedLinkage(C, n) ==
    /\ TagCount(C, n, EdgeTags_LinkRelation) = 1
    /\ TagCount(C, n, EdgeTags_LinkArgument) >= 2

\* C24: a linkage node is finalized only if it has exactly one
\* link-relation child and at least two link-argument children; with two
\* link relations, with none, or with fewer than two link arguments,
\* finalization fails with an error and returns no Passage.
C24_LinkageCountsEnforced ==
    (cresult.op = "passage" /\
     \E n \in 1..Len(cfg.nodes) : is_linkage(cfg, n) /\ ~WellFormedLinkage(cfg, n))
        => (cresult.status # "ok" /\ cresult.ret = "None")

-----------------------------------------------------------------------------
(* Properties of apply_action on its error and frame behaviour *)

\* C31: an action whose application raises an error leaves the
\* Configuration exactly as it was before the call: the stack, the buffer,
\* the node list and every node's transient edge lists are unchanged.
C31_FailedActionChangesNothing ==
    [][(cresult'.op \in ActionTypes /\ cresult'.status # "ok") => cfg' = cfg]_vars

\* The nodes on the stack or in the buffer
StackOrBuffer(C) == SeqSet(C.stack) \cup SeqSet(C.buffer)

\* C32 as stated: WRAP never discards a node: the set of nodes in stack and
\* buffer is the same before and after WRAP, also when the buffer is not
\* empty as WRAP is applied.
C32_WrapKeepsAllNodes ==
    [][cresult'.op = "WRAP" => StackOrBuffer(cfg') = StackOrBuffer(cfg)]_vars

\* C32, amended: WRAP on an empty buffer discards no node; on a non-empty
\* buffer the nodes of the buffer are discarded and exactly those of the
\* stack remain.
C32_WrapKeepsStackNodes ==
    [][cresult'.op = "WRAP" =>
         /\ cfg.buffer = <<>> => StackOrBuffer(cfg') = StackOrBuffer(cfg)
         /\ StackOrBuffer(cfg') = SeqSet(cfg.stack)
      ]_vars

\* a WRAP left every node but the root in the buffer: all of them, two at
\* least, were on the stack and the buffer was empty
C32_Witness ==
    /\ cresult.op = "WRAP" /\ cresult.status = "ok"
    /\ cfg.stack = <<>>
    /\ Len(cfg.buffer) >= 2
    /\ SeqSet(cfg.buffer) = (1..Len(cfg.nodes)) \ {cfg.root}

====
